---- MODULE Spec2Model ----
(***************************************************************************)
(* Gargle Post Planner: the posting-date and holiday-alignment engine       *)
(* (src/utils/dateUtils.ts, src/utils/holidayUtils.ts,                      *)
(* src/services/geminiService.ts) and the plan state machine of the React   *)
(* component App (src/App.tsx).                                             *)
(*                                                                         *)
(* A JavaScript Date that holds a local midnight is modelled by its local   *)
(* calendar day number (days since 1970-01-01); getTime gives the instant   *)
(* of that midnight in hours, which depends on the time zone.  An ISO date  *)
(* string 'YYYY-MM-DD' is the tuple <<year, month, day>>, the empty string  *)
(* is <<>>.                                                                 *)
(***************************************************************************)
EXTENDS Integers, Sequences, FiniteSets, TLC

VARIABLES
    \* ---- state of the component App (useState, src/App.tsx 27-47)
    practiceName,       \* string
    practiceUrl,        \* string
    practicePhone,      \* string
    practiceLocation,   \* string
    startDate,          \* the start date string (ISO tuple, <<>> when empty)
    postSchedule,       \* "MW" or "TTH"
    onboardingFile,     \* File | null
    pastPostsFile,      \* File | null
    contentPlan,        \* WeekPlan[] | null
    isLoading,          \* boolean
    error,              \* string | null
    regeneratingPosts,  \* Set<string> of post keys
    onboardingContent,  \* string | undefined
    pastPostsContent,   \* string | undefined
    cachedResearch,     \* { url, data } | null
    \* ---- the runtime around it
    mounted,            \* the React tree is mounted (no render has thrown)
    submission,         \* the handleSubmit call in flight, with what it closed over
    regenerations,      \* the handleRegeneratePost calls in flight, with their closures
    planCall,           \* the call in flight of the generateContentPlan that batches
    used,               \* how many user actions of each kind have happened
    tz,                 \* the browser's time zone: [base, dst]
    calc                \* the last pure computation applied and its result

dateVars == <<startDate, postSchedule, tz, calc>>

appVars ==
    <<practiceName, practiceUrl, practicePhone, practiceLocation, onboardingFile,
      pastPostsFile, contentPlan, isLoading, error, regeneratingPosts,
      onboardingContent, pastPostsContent, cachedResearch, mounted, submission,
      regenerations, planCall, used>>

vars == <<dateVars, appVars>>

----------------------------------------------------------------------------
(* Bounds of the model *)

\* start dates explored: NumStartDays dates, StartStride days apart, from FirstStartDate
NumStartDays == 60

StartStride == 11

\* week counts explored for calculatePostingDates: 1 .. MaxNumWeeks
MaxNumWeeks == 12

\* a generated plan has 0 .. MaxWeeks weeks
MaxWeeks == 1

\* user actions explored in the component: changes of a form field, valid
\* submissions, regenerations started, edits of a post
MaxFormChanges == 4

MaxSubmits == 2

MaxRegens == 2

MaxEdits == 1

\* plans handed to handleContentPlanChange on its own have 1 .. MaxEditWeeks weeks
MaxEditWeeks == 3

\* the alignment rule on its own is given the slots of 0 .. MaxAlignWeeks weeks
MaxAlignWeeks == 2

\* a generation response on its own carries 0 .. MaxResponseWeeks weeks of
\* 1 .. MaxResponsePosts posts
MaxResponseWeeks == 13

MaxResponsePosts == 3

----------------------------------------------------------------------------
(* The JavaScript Date built-ins the code relies on *)

\* day number of the civil date y-m-d (m in 1..12), proleptic Gregorian
DaysFromCivil(y, m, d) ==
    LET yy  == IF m <= 2 THEN y - 1 ELSE y
        era == yy \div 400
        yoe == yy - era * 400
        mp  == (m + 9) % 12
        doy == (153 * mp + 2) \div 5 + d - 1
        doe == yoe * 365 + yoe \div 4 - yoe \div 100 + doy
    IN  era * 146097 + doe - 719468

\* the civil date <<y, m, d>> of a day number
CivilFromDays(z) ==
    LET zz  == z + 719468
        era == zz \div 146097
        doe == zz - era * 146097
        yoe == (doe - doe \div 1460 + doe \div 36524 - doe \div 146096) \div 365
        doy == doe - (365 * yoe + yoe \div 4 - yoe \div 100)
        mp  == (5 * doy + 2) \div 153
        d   == doy - (153 * mp + 2) \div 5 + 1
        m   == IF mp < 10 THEN mp + 3 ELSE mp - 9
        y   == yoe + era * 400 + (IF m <= 2 THEN 1 ELSE 0)
    IN  <<y, m, d>>

\* new Date(year, monthIndex, day): local midnight; month and day overflow roll over
NewDate(year, monthIndex, day) ==
    DaysFromCivil(year + monthIndex \div 12, (monthIndex % 12) + 1, 1) + day - 1

\* new Date(`${iso}T00:00:00`): local midnight of the ISO date
ParseLocalMidnight(iso) == DaysFromCivil(iso[1], iso[2], iso[3])

getFullYear(date) == CivilFromDays(date)[1]
getMonth(date)    == CivilFromDays(date)[2] - 1
getDate(date)     == CivilFromDays(date)[3]

\* Sunday = 0 .. Saturday = 6 (1970-01-01 was a Thursday)
getDay(date) == (date + 4) % 7

\* hours in a day (dayMs = 24 * 60 * 60 * 1000, in hours)
DayHours == 24

\* the zone's offset from UTC, in hours, on a local day; daylight saving time is
\* approximated at month granularity (April .. October)
UtcOffset(zone, date) ==
    zone.base + (IF zone.dst /\ CivilFromDays(date)[2] \in 4..10 THEN 1 ELSE 0)

\* date.getTime(), in hours: the instant of the local midnight
getTime(zone, date) == date * DayHours - UtcOffset(zone, date)

\* Math.round(n / d) for d > 0: halves round up
MathRound(n, d) == (2 * n + d) \div (2 * d)

Abs_Negated(n) == IF n < 0 THEN n ELSE -n

Abs(n) == IF n < 0 THEN -n ELSE n

\* const x = e; F(x): e is evaluated once and F applied to its value
Const(e, F(_)) == CHOOSE r \in {F(x) : x \in {e}} : TRUE

\* Array.prototype.sort with a comparator a.key - b.key: stable, ascending
SortBy(array, Key(_)) ==
    Const(array, LAMBDA s :
        LET Insert(sorted, x) ==
                LET k == Cardinality({j \in 1..Len(sorted) : Key(sorted[j]) <= Key(x)})
                IN  SubSeq(sorted, 1, k) \o <<x>> \o SubSeq(sorted, k + 1, Len(sorted))
            ins[i \in 0..Len(s)] ==
                IF i = 0 THEN <<>>
                ELSE Const(ins[i - 1], LAMBDA sorted : Insert(sorted, s[i]))
        IN  ins[Len(s)])

\* Array.prototype.reduce without an initial value, on a non-empty array
Reduce(array, F(_, _)) ==
    Const(array, LAMBDA s :
        LET acc[i \in 1..Len(s)] ==
                IF i = 1 THEN s[1]
                ELSE Const(acc[i - 1], LAMBDA best : F(best, s[i]))
        IN  acc[Len(s)])

\* Array.prototype.flatMap over a sequence of sequences
Flatten(arrays) ==
    Const(arrays, LAMBDA ss :
        LET cat[i \in 0..Len(ss)] == IF i = 0 THEN <<>> ELSE cat[i - 1] \o ss[i]
        IN  cat[Len(ss)])

----------------------------------------------------------------------------
(* JavaScript values.  A value that may be null, undefined, a string, an     *)
(* object or a function carries its type.  A string is the sequence of its   *)
(* parts (for a caption, title or key: of its characters), '' is <<>>.       *)

Range(seq) == {seq[i] : i \in 1..Len(seq)}

Null      == [type |-> "null"]

Undefined == [type |-> "undefined"]

Str(s)    == [type |-> "string", value |-> s]

Obj(o)    == [type |-> "object", value |-> o]

Fn(name)  == [type |-> "function", name |-> name]

\* ToBoolean: null, undefined and '' are falsy
Truthy(v) ==
    CASE v.type = "null"      -> FALSE
      [] v.type = "undefined" -> FALSE
      [] v.type = "string"    -> v.value # <<>>
      [] OTHER                -> TRUE

\* a || b
Or(a, b) == IF Truthy(a) THEN a ELSE b

\* v.name for a string-valued property: undefined on a primitive or when absent
Property(v, name) ==
    IF v.type = "object" /\ name \in DOMAIN v.value
    THEN Str(v.value[name])
    ELSE Undefined

UpperCase ==
    <<"A", "B", "C", "D", "E", "F", "G", "H", "I", "J", "K", "L", "M",
      "N", "O", "P", "Q", "R", "S", "T", "U", "V", "W", "X", "Y", "Z">>

LowerCase ==
    <<"a", "b", "c", "d", "e", "f", "g", "h", "i", "j", "k", "l", "m",
      "n", "o", "p", "q", "r", "s", "t", "u", "v", "w", "x", "y", "z">>

Digits == <<"0", "1", "2", "3", "4", "5", "6", "7", "8", "9">>

\* the regular expression class \w
IsWordChar(c) ==
    c \in Range(UpperCase) \cup Range(LowerCase) \cup Range(Digits) \cup {"_"}

\* the conversion that leaves every character as it is
toLowerCase_Unchanged(c) == c

\* String.prototype.toLowerCase on one character
toLowerCase(c) ==
    IF c \in Range(UpperCase)
    THEN LowerCase[CHOOSE i \in 1..Len(UpperCase) : UpperCase[i] = c]
    ELSE c

\* JSON.parse(JSON.stringify(plan)): an equal plan made of new objects
JsonClone(plan) ==
    [fresh |-> TRUE,
     value |-> [i \in 1..Len(plan) |->
                   [week  |-> plan[i].week,
                    posts |-> [j \in 1..Len(plan[i].posts) |->
                                  [k \in DOMAIN plan[i].posts[j] |->
                                      plan[i].posts[j][k]]]]]]

----------------------------------------------------------------------------
(* src/utils/dateUtils.ts *)

\* the pair that is Monday and Wednesday for both schedules
targetDays_AlwaysMondayWednesday(schedule) == <<1, 3>>

targetDays(schedule) == IF schedule = "MW" THEN <<1, 3>> ELSE <<2, 4>>

\* calculatePostDate without the advance by whole weeks
calculatePostDate_NoWeekAdvance(startDateString, weekIndex, postIndex, schedule) ==
    LET planStartDate == ParseLocalMidnight(startDateString)
        firstMonday   == planStartDate + ((1 - getDay(planStartDate) + 7) % 7)
    IN  firstMonday + targetDays(schedule)[postIndex + 1] - 1

\* calculatePostDate anchored on the Monday of the week of the start date
calculatePostDate_MondayOfStartWeek(startDateString, weekIndex, postIndex, schedule) ==
    LET planStartDate == ParseLocalMidnight(startDateString)
        firstMonday   == planStartDate - ((getDay(planStartDate) + 6) % 7)
    IN  firstMonday + weekIndex * 7 + targetDays(schedule)[postIndex + 1] - 1

\* calculatePostDate(startDateString, weekIndex, postIndex, postSchedule);
\* postIndex is 0-based as in the source
calculatePostDate(startDateString, weekIndex, postIndex, schedule) ==
    LET planStartDate        == ParseLocalMidnight(startDateString)
        dayForThisPost       == targetDays(schedule)[postIndex + 1]
        startDayOfWeek       == getDay(planStartDate)
        daysUntilFirstMonday == (1 - startDayOfWeek + 7) % 7
        firstMonday          == planStartDate + daysUntilFirstMonday
        weekMonday           == firstMonday + weekIndex * 7
        daysFromMonday       == dayForThisPost - 1
    IN  weekMonday + daysFromMonday

----------------------------------------------------------------------------
(* src/utils/holidayUtils.ts *)

\* the offset to the first occurrence without its wrap into 0..6
nthWeekdayOfMonth_NoWrap(year, monthIndex, weekday, occurrence) ==
    LET firstOfMonth == NewDate(year, monthIndex, 1)
        firstWeekday == weekday - getDay(firstOfMonth)
        day          == 1 + firstWeekday + (occurrence - 1) * 7
    IN  NewDate(year, monthIndex, day)

nthWeekdayOfMonth(year, monthIndex, weekday, occurrence) ==
    LET firstOfMonth == NewDate(year, monthIndex, 1)
        firstWeekday == (weekday - getDay(firstOfMonth) + 7) % 7
        day          == 1 + firstWeekday + (occurrence - 1) * 7
    IN  NewDate(year, monthIndex, day)

lastWeekdayOfMonth(year, monthIndex, weekday) ==
    LET firstOfNextMonth == NewDate(year, monthIndex + 1, 1)
        \* one millisecond before the next month's first midnight: the last day
        lastDayOfMonth   == firstOfNextMonth - 1
        diff             == (getDay(lastDayOfMonth) - weekday + 7) % 7
    IN  NewDate(year, monthIndex, getDate(lastDayOfMonth) - diff)

\* the algorithm without its correction m
calculateEasterSunday_NoCorrection(year) ==
    LET a == year % 19
        b == year \div 100
        c == year % 100
        d == b \div 4
        e == b % 4
        f == (b + 8) \div 25
        g == (b - f + 1) \div 3
        h == (19 * a + b - d - g + 15) % 30
        i == c \div 4
        k == c % 4
        l == (32 + 2 * e + 2 * i - h - k) % 7
        month == (h + l + 114) \div 31 - 1
        day   == ((h + l + 114) % 31) + 1
    IN  NewDate(year, month, day)

\* Anonymous Gregorian algorithm (Meeus/Jones/Butcher)
calculateEasterSunday(year) ==
    LET a == year % 19
        b == year \div 100
        c == year % 100
        d == b \div 4
        e == b % 4
        f == (b + 8) \div 25
        g == (b - f + 1) \div 3
        h == (19 * a + b - d - g + 15) % 30
        i == c \div 4
        k == c % 4
        l == (32 + 2 * e + 2 * i - h - k) % 7
        m == (a + 11 * h + 22 * l) \div 451
        month == (h + l - 7 * m + 114) \div 31 - 1
        day   == ((h + l - 7 * m + 114) % 31) + 1
    IN  NewDate(year, month, day)

fixedDateHoliday(name, monthIndex, day) ==
    [kind |-> "fixed", name |-> name, monthIndex |-> monthIndex, day |-> day]

nthWeekdayHoliday(name, monthIndex, weekday, occurrence) ==
    [kind |-> "nth", name |-> name, monthIndex |-> monthIndex,
     weekday |-> weekday, occurrence |-> occurrence]

lastWeekdayHoliday(name, monthIndex, weekday) ==
    [kind |-> "last", name |-> name, monthIndex |-> monthIndex, weekday |-> weekday]

HOLIDAY_GENERATORS ==
    << fixedDateHoliday("New Year's Day", 0, 1),
       nthWeekdayHoliday("Martin Luther King Jr. Day", 0, 1, 3),
       fixedDateHoliday("Valentine's Day", 1, 14),
       nthWeekdayHoliday("Presidents' Day", 1, 1, 3),
       fixedDateHoliday("St. Patrick's Day", 2, 17),
       [kind |-> "easter", name |-> "Easter Sunday"],
       nthWeekdayHoliday("Mother's Day", 4, 0, 2),
       lastWeekdayHoliday("Memorial Day", 4, 1),
       nthWeekdayHoliday("Father's Day", 5, 0, 3),
       fixedDateHoliday("Independence Day", 6, 4),
       nthWeekdayHoliday("Labor Day", 8, 1, 1),
       fixedDateHoliday("Halloween", 9, 31),
       fixedDateHoliday("Veterans Day", 10, 11),
       nthWeekdayHoliday("Thanksgiving", 10, 4, 4),
       fixedDateHoliday("Christmas Day", 11, 25),
       fixedDateHoliday("New Year's Eve", 11, 31) >>

\* generator(year): the holiday a generator yields for a year
Generate(generator, year) ==
    [name |-> generator.name,
     date |-> CASE generator.kind = "fixed" ->
                       NewDate(year, generator.monthIndex, generator.day)
                [] generator.kind = "nth" ->
                       nthWeekdayOfMonth(year, generator.monthIndex,
                                         generator.weekday, generator.occurrence)
                [] generator.kind = "last" ->
                       lastWeekdayOfMonth(year, generator.monthIndex, generator.weekday)
                [] OTHER -> calculateEasterSunday(year)]

\* the years the loop of getHolidaysInRange visits, in order
HolidayYears(rangeStart, rangeEnd) ==
    LET first == getFullYear(rangeStart) - 1
        last  == getFullYear(rangeEnd) + 1
    IN  [i \in 1..(IF last >= first THEN last - first + 1 ELSE 0) |-> first + i - 1]

\* the range test with the end of the range excluded
InRange_EndExclusive(zone, date, rangeStart, rangeEnd) ==
    /\ getTime(zone, date) >= getTime(zone, rangeStart)
    /\ getTime(zone, date) < getTime(zone, rangeEnd)

\* the test of the loop body: holiday.date >= rangeStart && holiday.date <= rangeEnd
InRange(zone, date, rangeStart, rangeEnd) ==
    /\ getTime(zone, date) >= getTime(zone, rangeStart)
    /\ getTime(zone, date) <= getTime(zone, rangeEnd)

getHolidaysInRange(zone, rangeStart, rangeEnd) ==
    LET ofYear(year) ==
            SelectSeq([g \in 1..Len(HOLIDAY_GENERATORS) |->
                           Generate(HOLIDAY_GENERATORS[g], year)],
                      LAMBDA holiday : InRange(zone, holiday.date, rangeStart, rangeEnd))
    IN  Const(HolidayYears(rangeStart, rangeEnd), LAMBDA years :
            SortBy(Flatten([y \in 1..Len(years) |-> ofYear(years[y])]),
                   LAMBDA holiday : getTime(zone, holiday.date)))

----------------------------------------------------------------------------
(* src/services/geminiService.ts: the schedule and the holiday alignment *)

\* the plan length generateWeeksBatch passes to calculatePostingDates
PlanWeeks == 12

\* formatIso(date): the local calendar date as 'YYYY-MM-DD'
formatIso(date) == <<getFullYear(date), getMonth(date) + 1, getDate(date)>>

calculatePostingDates(zone, start, schedule, numWeeks) ==
    [w \in 1..numWeeks |->
        [week  |-> w,
         dates |->
            Const(SortBy([p \in 1..Len(targetDays(schedule)) |->
                            Const(calculatePostDate(start, w - 1, p - 1, schedule),
                                  LAMBDA date : [iso       |-> formatIso(date),
                                                 timestamp |-> getTime(zone, date)])],
                         LAMBDA x : x.timestamp),
                  LAMBDA sorted : [p \in 1..Len(sorted) |-> [iso |-> sorted[p].iso]])]]

\* rawPostingSlots, then allPostingSlots: sorted by date, numbered from 1
allPostingSlots(zone, postingDates) ==
    Const(postingDates, LAMBDA pd :
        LET rawPostingSlots ==
                Flatten([w \in 1..Len(pd) |->
                    [p \in 1..Len(pd[w].dates) |->
                        [week      |-> pd[w].week,
                         iso       |-> pd[w].dates[p].iso,
                         postIndex |-> p - 1,
                         dateObj   |-> ParseLocalMidnight(pd[w].dates[p].iso)]]])
        IN  Const(SortBy(rawPostingSlots, LAMBDA slot : getTime(zone, slot.dateObj)),
                  LAMBDA sorted :
                      [i \in 1..Len(sorted) |->
                          [week      |-> sorted[i].week,
                           iso       |-> sorted[i].iso,
                           postIndex |-> sorted[i].postIndex,
                           dateObj   |-> sorted[i].dateObj,
                           sequence  |-> i]]))

\* the candidatesBefore filter with a slot on the holiday itself left out
IsCandidateBefore_Strict(zone, slot, holiday) ==
    getTime(zone, slot.dateObj) < getTime(zone, holiday.date)

\* the candidatesBefore filter: slot.dateObj.getTime() <= holiday.date.getTime()
IsCandidateBefore(zone, slot, holiday) ==
    getTime(zone, slot.dateObj) <= getTime(zone, holiday.date)

\* the alignment of one holiday: <<assignment>>, or <<>> where the code returns null
alignHoliday(zone, slots, holiday) ==
    LET closerBefore(best, current) ==
            LET bestDiff    == getTime(zone, holiday.date) - getTime(zone, best.dateObj)
                currentDiff == getTime(zone, holiday.date) - getTime(zone, current.dateObj)
            IN  IF currentDiff < bestDiff THEN current ELSE best
        closerAfter(best, current) ==
            LET bestDiff    == Abs(getTime(zone, holiday.date) - getTime(zone, best.dateObj))
                currentDiff == Abs(getTime(zone, holiday.date) - getTime(zone, current.dateObj))
            IN  IF currentDiff < bestDiff THEN current ELSE best
        result(chosen, relation) ==
            LET diffDays == MathRound(getTime(zone, holiday.date)
                                        - getTime(zone, chosen.dateObj), DayHours)
            IN  [holiday     |-> holiday,
                 slot        |-> chosen,
                 relation    |-> relation,
                 absDiffDays |-> Abs(diffDays)]
    IN  Const(SelectSeq(slots, LAMBDA slot : IsCandidateBefore(zone, slot, holiday)),
              LAMBDA candidatesBefore :
        IF Len(candidatesBefore) > 0
        THEN Const(Reduce(candidatesBefore, closerBefore), LAMBDA chosen :
                 << result(chosen,
                           IF getTime(zone, chosen.dateObj) = getTime(zone, holiday.date)
                           THEN "exact" ELSE "before") >>)
        ELSE Const(SelectSeq(slots, LAMBDA slot :
                        getTime(zone, slot.dateObj) > getTime(zone, holiday.date)),
                   LAMBDA candidatesAfter :
                 IF Len(candidatesAfter) = 0
                 THEN <<>>
                 ELSE Const(Reduce(candidatesAfter, closerAfter), LAMBDA chosen :
                          << result(chosen, "after") >>)))

\* holidaysInRange.map(...).filter(Boolean); slots and holidays are values
holidayAlignment(zone, slots, holidays) ==
    Flatten([h \in 1..Len(holidays) |-> alignHoliday(zone, slots, holidays[h])])

\* the scheduling facts with the holiday window begun at the start date
batchSchedule_WindowFromStartDate(zone, start, schedule) ==
    Const(allPostingSlots(zone, calculatePostingDates(zone, start, schedule, PlanWeeks)),
          LAMBDA slots :
        LET planStart == ParseLocalMidnight(start)
            planEnd   == IF Len(slots) > 0 THEN slots[Len(slots)].dateObj ELSE planStart
        IN  Const(getHolidaysInRange(zone, planStart, planEnd), LAMBDA holidays :
                [allPostingSlots  |-> slots,
                 planStart        |-> planStart,
                 planEnd          |-> planEnd,
                 holidaysInRange  |-> holidays,
                 holidayAlignment |-> holidayAlignment(zone, slots, holidays)]))

\* the scheduling facts generateWeeksBatch computes before it builds its request
batchSchedule(zone, start, schedule) ==
    Const(allPostingSlots(zone, calculatePostingDates(zone, start, schedule, PlanWeeks)),
          LAMBDA slots :
        LET planStart == IF Len(slots) > 0 THEN slots[1].dateObj
                                           ELSE ParseLocalMidnight(start)
            planEnd   == IF Len(slots) > 0 THEN slots[Len(slots)].dateObj ELSE planStart
        IN  Const(getHolidaysInRange(zone, planStart, planEnd), LAMBDA holidays :
                [allPostingSlots  |-> slots,
                 planStart        |-> planStart,
                 planEnd          |-> planEnd,
                 holidaysInRange  |-> holidays,
                 holidayAlignment |-> holidayAlignment(zone, slots, holidays)]))

\* date.toLocaleDateString('en-US', { month: 'long' })
MonthNames ==
    <<"January", "February", "March", "April", "May", "June", "July",
      "August", "September", "October", "November", "December">>

\* milestonesToString (App.tsx 16-24): one line `${name} ${typeLabel} - ${month}
\* ${day}` per milestone, joined by newlines; a line is the tuple of its parts
milestonesToString(milestones) ==
    [i \in 1..Len(milestones) |->
        LET date == ParseLocalMidnight(milestones[i].date)
        IN  <<milestones[i].name,
              IF milestones[i].type = "birthday" THEN "Birthday" ELSE "Work Anniversary",
              MonthNames[getMonth(date) + 1],
              getDate(date)>>]

\* the data sections of the request of generateWeeksBatch that carry anchor
\* events: 'Birthdays/work anniversaries: ...' when the milestone text is not
\* empty, and one line per holiday assignment under 'Holiday alignment
\* requirements' (the holiday, its slot, relation and distance)
anchorSections(milestones, alignment) ==
    [teamMilestones   |-> IF milestones # <<>> THEN Obj(milestones) ELSE Null,
     holidayAlignment |-> [i \in 1..Len(alignment) |->
                              [name        |-> alignment[i].holiday.name,
                               date        |-> alignment[i].holiday.date,
                               iso         |-> alignment[i].slot.iso,
                               sequence    |-> alignment[i].slot.sequence,
                               week        |-> alignment[i].slot.week,
                               postIndex   |-> alignment[i].slot.postIndex,
                               relation    |-> alignment[i].relation,
                               absDiffDays |-> alignment[i].absDiffDays]]]

----------------------------------------------------------------------------
(* src/services/geminiService.ts: research, responses and post-processing *)

\* caption.replace(/#(\w+)/g, (_match, tag) => `#${tag.toLowerCase()}`), from
\* character i on; inTag: the characters before i are a '#' and word characters
RECURSIVE lowercaseFrom(_, _, _)
lowercaseFrom(caption, i, inTag) ==
    IF i > Len(caption) THEN <<>>
    ELSE IF inTag /\ IsWordChar(caption[i])
         THEN <<toLowerCase(caption[i])>> \o lowercaseFrom(caption, i + 1, TRUE)
         ELSE IF caption[i] = "#" /\ i < Len(caption) /\ IsWordChar(caption[i + 1])
              THEN <<"#">> \o lowercaseFrom(caption, i + 1, TRUE)
              ELSE <<caption[i]>> \o lowercaseFrom(caption, i + 1, FALSE)

lowercaseHashtags(caption) == lowercaseFrom(caption, 1, FALSE)

\* candidate.name is a non-empty string
HasText(candidate, name) == name \in DOMAIN candidate /\ candidate[name] # <<>>

\* candidate.title && candidate.caption
IsPostLike(candidate) == HasText(candidate, "title") /\ HasText(candidate, "caption")

\* { title, caption, ...(photoIdeas && { photoIdeas }) }
PostOf(candidate) ==
    IF HasText(candidate, "photoIdeas")
    THEN [title      |-> candidate.title,
          caption    |-> candidate.caption,
          photoIdeas |-> candidate.photoIdeas]
    ELSE [title |-> candidate.title, caption |-> candidate.caption]

\* week?.posts is a non-empty array whose first element is post-like
HasFirstPost(week) ==
    /\ "posts" \in DOMAIN week
    /\ Len(week.posts) > 0
    /\ IsPostLike(week.posts[1])

\* tryExtractSinglePost for null and for an object (the shapes: the post itself,
\* { post }, { posts: [...] }, { weeks: [...] }); null when none matches
tryExtractSinglePost(data) ==
    IF ~Truthy(data) THEN Null
    ELSE LET candidate == data.value
         IN  IF IsPostLike(candidate) THEN Obj(PostOf(candidate))
             ELSE IF "post" \in DOMAIN candidate /\ IsPostLike(candidate.post)
                  THEN Obj(PostOf(candidate.post))
             ELSE IF HasFirstPost(candidate)
                  THEN Obj(PostOf(candidate.posts[1]))
             ELSE IF /\ "weeks" \in DOMAIN candidate
                     /\ \E i \in 1..Len(candidate.weeks) : HasFirstPost(candidate.weeks[i])
                  THEN LET first == CHOOSE i \in 1..Len(candidate.weeks) :
                                       /\ HasFirstPost(candidate.weeks[i])
                                       /\ \A j \in 1..(i - 1) :
                                             ~HasFirstPost(candidate.weeks[j])
                       IN  Obj(PostOf(candidate.weeks[first].posts[1]))
             ELSE Null

\* generateSinglePost from its generation response on: the post it resolves
\* with, or the message of the error it rejects with.  response.empty: the
\* response has no text; response.data: the parsed JSON
generateSinglePostResult(response) ==
    IF response.empty
    THEN [throws  |-> TRUE,
          message |-> <<"Failed to regenerate post. Details: ",
                        "Received an empty response from the AI when regenerating post.">>]
    ELSE LET post == tryExtractSinglePost(response.data)
         IN  IF Truthy(post) /\ post.value.title # <<>> /\ post.value.caption # <<>>
             THEN [throws |-> FALSE,
                   post   |-> [post.value EXCEPT
                                  !.caption = lowercaseHashtags(post.value.caption)]]
             ELSE [throws  |-> TRUE,
                   message |-> <<"Failed to regenerate post. Details: ",
                                 "Invalid data structure received from AI for single post. Keys: ">>]

\* parsedData.weeks.map((week, index) => ({ ...week, week: weekStart + index,
\*   posts: week.posts.map(post => ({ ...post, caption: <hashtags lowercased> })) }))
processedWeeks_KeepLabel(weeks, weekStart) ==
    [i \in 1..Len(weeks) |->
        [weeks[i] EXCEPT
            !.posts = [j \in 1..Len(weeks[i].posts) |->
                          [weeks[i].posts[j] EXCEPT
                              !.caption = lowercaseHashtags(weeks[i].posts[j].caption)]]]]

processedWeeks(weeks, weekStart) ==
    [i \in 1..Len(weeks) |->
        [weeks[i] EXCEPT
            !.week  = weekStart + (i - 1),
            !.posts = [j \in 1..Len(weeks[i].posts) |->
                          [weeks[i].posts[j] EXCEPT
                              !.caption = lowercaseHashtags(weeks[i].posts[j].caption)]]]]

\* week.posts.map(...) and post.caption.replace(...) do not throw: every week
\* has posts and every post a caption
WeeksMappable(weeks) ==
    \A i \in 1..Len(weeks) :
        /\ "posts" \in DOMAIN weeks[i]
        /\ \A j \in 1..Len(weeks[i].posts) : "caption" \in DOMAIN weeks[i].posts[j]

\* generateWeeksBatch from its generation response on: the weeks it resolves
\* with, or the message of the error it rejects with (a TypeError of the map is
\* caught and wrapped like the others)
generateWeeksBatchResult(response, weekStart) ==
    IF response.empty
    THEN [throws  |-> TRUE,
          message |-> <<"Failed to generate content plan. Details: ",
                        "Received an empty response from the AI.">>]
    ELSE IF Truthy(response.data) /\ "weeks" \in DOMAIN response.data.value
         THEN IF WeeksMappable(response.data.value.weeks)
              THEN [throws |-> FALSE,
                    weeks  |-> processedWeeks(response.data.value.weeks, weekStart)]
              ELSE [throws  |-> TRUE,
                    message |-> <<"Failed to generate content plan. Details: ",
                                  "Cannot read properties of undefined">>]
         ELSE [throws  |-> TRUE,
               message |-> <<"Failed to generate content plan. Details: ",
                             "Invalid data structure received from AI. The 'weeks' array is missing.">>]

\* researchPracticeWithSearch up to its request: the cached data when the cache
\* holds research for this URL, else a research request is issued
researchPracticeWithSearch(url, cache) ==
    IF Truthy(cache) /\ Property(cache, "url") = Str(url)
    THEN [request |-> FALSE, research |-> cache.value.data]
    ELSE [request |-> TRUE]

\* the catch that stores its placeholder in the cache
researchResponse_CachesPlaceholder(url, response, setCache) ==
    IF response.rejected
    THEN [research |-> <<"Research unavailable: ">> \o response.message,
          cache    |-> <<Obj([url  |-> url,
                              data |-> <<"Research unavailable: ">> \o response.message])>>]
    ELSE [research |-> response.text, cache |-> <<>>]

\* researchPracticeWithSearch from the response to its request on: the research
\* text it resolves with and the calls it made to the setter of the cache it
\* was given (calling something that is not a function throws inside the try)
researchResponse(url, response, setCache) ==
    IF response.rejected
    THEN [research |-> <<"Research unavailable: ">> \o response.message, cache |-> <<>>]
    ELSE LET researchData == IF response.text # <<>>
                             THEN response.text
                             ELSE <<"No research results available">>
         IN  IF setCache.type # "function"
             THEN [research |-> <<"Research unavailable: ",
                                  "setCachedResearch is not a function">>,
                   cache    |-> <<>>]
             ELSE IF setCache = Fn("setCachedResearch")
                  THEN [research |-> researchData,
                        cache    |-> <<Obj([url |-> url, data |-> researchData])>>]
                  ELSE [research |-> researchData, cache |-> <<>>]

\* `- ${post.title}: ${post.caption}`
existingPostLine(post) == <<"-", " ">> \o post.title \o <<":", " ">> \o post.caption

\* the list that keeps the post that is being replaced
existingPostsText_KeepsTarget(currentPlan, postToReplace) ==
    Flatten([w \in 1..Len(currentPlan) |->
                [p \in 1..Len(currentPlan[w].posts) |->
                    existingPostLine(currentPlan[w].posts[p])]])

\* existingPostsText of generateSinglePost before its join('\n'): the lines of
\* currentPlan.flatMap(week => week.posts.map(...)).filter(Boolean)
existingPostsText(currentPlan, postToReplace) ==
    LET mapped == Flatten([w \in 1..Len(currentPlan) |->
                     [p \in 1..Len(currentPlan[w].posts) |->
                         IF /\ w - 1 = postToReplace.weekIndex
                            /\ p - 1 = postToReplace.postIndex
                         THEN Null
                         ELSE Str(existingPostLine(currentPlan[w].posts[p]))]])
        kept   == SelectSeq(mapped, Truthy)
    IN  [i \in 1..Len(kept) |-> kept[i].value]

\* The text of a generation response.  empty: '' (or no text); fenced: wrapped
\* in ```json ... ```; defects: what is wrong with the JSON between the fences;
\* data: the value the JSON denotes once it parses
TextDefects == {"raw newline in string", "raw carriage return in string",
                "raw tab in string", "trailing comma"}

\* jsonText.replace(/```json\s*/, '').replace(/```\s*$/, '').trim()
cleanJson(text) == [text EXCEPT !.fenced = FALSE]

\* JSON.parse: throws a SyntaxError on a fence and on every defect
jsonParse(text) ==
    IF text.fenced \/ text.defects # {}
    THEN [throws |-> TRUE]
    ELSE [throws |-> FALSE, value |-> text.data]

\* the repair pass that escapes nothing
sanitizeJsonStringLiterals_Nothing(text) == text

\* sanitizeJsonStringLiterals: raw \r and \n inside string literals are escaped
sanitizeJsonStringLiterals(text) ==
    [text EXCEPT !.defects = @ \ {"raw newline in string",
                                  "raw carriage return in string"}]

\* parseJsonSafely; repairs: how many times the repair pass ran
parseJsonSafely(rawJson) ==
    LET initial == jsonParse(rawJson)
    IN  IF ~initial.throws
        THEN [throws |-> FALSE, value |-> initial.value, repairs |-> 0]
        ELSE LET sanitized == jsonParse(sanitizeJsonStringLiterals(rawJson))
             IN  IF ~sanitized.throws
                 THEN [throws |-> FALSE, value |-> sanitized.value, repairs |-> 1]
                 ELSE [throws |-> TRUE, repairs |-> 1]

\* generateWeeksBatch from the text of its generation response on
generateWeeksBatchFromText(text, weekStart) ==
    IF text.empty
    THEN generateWeeksBatchResult([empty |-> TRUE, data |-> Null], weekStart)
    ELSE LET parsedData == parseJsonSafely(cleanJson(text))
         IN  IF parsedData.throws
             THEN [throws  |-> TRUE,
                   message |-> <<"Failed to generate content plan. Details: ",
                                 "SyntaxError">>]
             ELSE generateWeeksBatchResult([empty |-> FALSE, data |-> parsedData.value],
                                           weekStart)

\* generateSinglePost from the text of its generation response on
generateSinglePostFromText(text) ==
    IF text.empty
    THEN generateSinglePostResult([empty |-> TRUE, data |-> Null])
    ELSE LET parsedData == parseJsonSafely(cleanJson(text))
         IN  IF parsedData.throws
             THEN [throws  |-> TRUE,
                   message |-> <<"Failed to regenerate post. Details: ", "SyntaxError">>]
             ELSE generateSinglePostResult([empty |-> FALSE, data |-> parsedData.value])

----------------------------------------------------------------------------
(* src/App.tsx: the state updaters and the state after construction *)

\* `${weekIndex}-${postIndex}`
postKey_WeekOnly(weekIndex, postIndex) == <<Digits[weekIndex + 1], "-">>

postKey(weekIndex, postIndex) ==
    <<Digits[weekIndex + 1], "-", Digits[postIndex + 1]>>

\* plan[weekIndex].posts[postIndex] exists
HasPost(plan, weekIndex, postIndex) ==
    /\ weekIndex + 1 \in 1..Len(plan)
    /\ postIndex + 1 \in 1..Len(plan[weekIndex + 1].posts)

PostAt(plan, weekIndex, postIndex) == plan[weekIndex + 1].posts[postIndex + 1]

\* the copy a handler edits: JSON.parse(JSON.stringify(currentPlan))
PlanCopy(currentPlan) == JsonClone(currentPlan)

\* newPlan[weekIndex].posts[postIndex][field] = value
AssignField_WholeWeek(plan, weekIndex, postIndex, field, value) ==
    [plan EXCEPT ![weekIndex + 1].posts =
        [j \in 1..Len(@) |-> [k \in DOMAIN @[j] \cup {field} |->
                                 IF k = field THEN value ELSE @[j][k]]]]

AssignField(plan, weekIndex, postIndex, field, value) ==
    [plan EXCEPT ![weekIndex + 1].posts[postIndex + 1] =
        [k \in DOMAIN @ \cup {field} |-> IF k = field THEN value ELSE @[k]]]

\* the updater of handleContentPlanChange applied to the plan in state.
\* state: the value it returns; previous: the value of the object it was given,
\* once it has run; throws: it threw (a week or post that does not exist)
handleContentPlanChange(currentPlan, weekIndex, postIndex, field, value) ==
    IF ~Truthy(currentPlan)
    THEN [throws |-> FALSE, state |-> Null, previous |-> currentPlan]
    ELSE IF ~HasPost(currentPlan.value, weekIndex, postIndex)
         THEN [throws |-> TRUE, state |-> currentPlan, previous |-> currentPlan]
         ELSE LET newPlan  == PlanCopy(currentPlan.value)
                  assigned == Obj(AssignField(newPlan.value, weekIndex, postIndex,
                                              field, value))
              IN  [throws   |-> FALSE,
                   state    |-> assigned,
                   previous |-> IF newPlan.fresh THEN currentPlan ELSE assigned]

\* newPlan[weekIndex].posts[postIndex] = newPost
AssignPost(plan, weekIndex, postIndex, newPost) ==
    [plan EXCEPT ![weekIndex + 1].posts[postIndex + 1] = newPost]

\* the plan the updater of handleRegeneratePost starts from: the plan in state
\* it is called with, not the plan the handler closed over
UpdaterBase_Closure(currentPlan, contentPlanClosure) == contentPlanClosure

UpdaterBase(currentPlan, contentPlanClosure) == currentPlan

\* the updater of handleRegeneratePost (lines 165-170) applied to the plan in
\* state; throws: the week does not exist in that plan
regeneratePostUpdate(currentPlan, contentPlanClosure, weekIndex, postIndex, newPost) ==
    LET base == UpdaterBase(currentPlan, contentPlanClosure)
    IN  IF ~Truthy(base)
        THEN [throws |-> FALSE, state |-> Null]
        ELSE IF weekIndex + 1 \notin 1..Len(base.value)
             THEN [throws |-> TRUE, state |-> currentPlan]
             ELSE [throws |-> FALSE,
                   state  |-> Obj(AssignPost(PlanCopy(base.value).value, weekIndex,
                                             postIndex, newPost))]

\* no handleSubmit call in flight
Idle == [pc |-> "idle"]

\* no call of the batching generateContentPlan has been made
NoPlanCall == [pc |-> "idle"]

NothingUsed == [formChanges |-> 0, submits |-> 0, regens |-> 0, edits |-> 0]

\* the state of App after construction, start date and schedule apart
AppConstructed ==
    /\ practiceName = <<>>
    /\ practiceUrl = <<>>
    /\ practicePhone = <<>>
    /\ practiceLocation = <<>>
    /\ onboardingFile = Null
    /\ pastPostsFile = Null
    /\ contentPlan = Null
    /\ isLoading = FALSE
    /\ error = Null
    /\ regeneratingPosts = {}
    /\ onboardingContent = Undefined
    /\ pastPostsContent = Undefined
    /\ cachedResearch = Null
    /\ mounted = TRUE
    /\ submission = Idle
    /\ regenerations = {}
    /\ planCall = NoPlanCall
    /\ used = NothingUsed

----------------------------------------------------------------------------
(* The scheduling engine applied to bounded inputs *)

FirstStartDate == <<2024, 1, 1>>

StartDates ==
    {formatIso(ParseLocalMidnight(FirstStartDate) + k * StartStride) :
        k \in 0..(NumStartDays - 1)}

PostSchedules == {"MW", "TTH"}

TimeZones ==
    { [base |-> -5, dst |-> TRUE],      \* west of UTC, with daylight saving time
      [base |-> 0,  dst |-> FALSE],     \* UTC
      [base |-> 9,  dst |-> FALSE] }    \* east of UTC

\* range lengths in days for getHolidaysInRange: empty ranges (negative), one
\* day, and spans of up to MaxRangeSteps * RangeStep days
RangeStep == 83

MaxRangeSteps == 5

RangeLengths == {-800, -1, 1, 6} \cup {i * RangeStep : i \in 0..MaxRangeSteps}

NoCalc == [op |-> "none"]

InitSchedule ==
    /\ startDate \in StartDates
    /\ postSchedule \in PostSchedules
    /\ tz \in TimeZones
    /\ calc = NoCalc
    /\ AppConstructed

\* calculatePostDate(startDate, weekIndex, postIndex, postSchedule)
CalculatePostDate ==
    /\ calc = NoCalc
    /\ \E weekIndex \in 0..(MaxNumWeeks - 1), postIndex \in 0..1 :
          calc' = [op        |-> "calculatePostDate",
                   weekIndex |-> weekIndex,
                   postIndex |-> postIndex,
                   date      |-> calculatePostDate(startDate, weekIndex, postIndex,
                                                   postSchedule)]
    /\ UNCHANGED <<startDate, postSchedule, tz>>
    /\ UNCHANGED appVars

\* calculatePostingDates(startDate, postSchedule, numWeeks), flattened and sorted
CalculatePostingDates ==
    /\ calc = NoCalc
    /\ \E numWeeks \in 1..MaxNumWeeks :
          calc' = [op       |-> "calculatePostingDates",
                   numWeeks |-> numWeeks,
                   slots    |-> allPostingSlots(tz,
                                   calculatePostingDates(tz, startDate, postSchedule,
                                                         numWeeks))]
    /\ UNCHANGED <<startDate, postSchedule, tz>>
    /\ UNCHANGED appVars

\* the schedule, holiday window and alignment of generateWeeksBatch
GenerateWeeksBatchSchedule ==
    /\ calc = NoCalc
    /\ calc' = [op |-> "generateWeeksBatch"] @@ batchSchedule(tz, startDate, postSchedule)
    /\ UNCHANGED <<startDate, postSchedule, tz>>
    /\ UNCHANGED appVars

\* getHolidaysInRange(rangeStart, rangeEnd)
GetHolidaysInRange ==
    /\ calc = NoCalc
    /\ \E len \in RangeLengths :
          LET rangeStart == ParseLocalMidnight(startDate)
              rangeEnd   == rangeStart + len
          IN  calc' = [op         |-> "getHolidaysInRange",
                       rangeStart |-> rangeStart,
                       rangeEnd   |-> rangeEnd,
                       holidays   |-> getHolidaysInRange(tz, rangeStart, rangeEnd)]
    /\ UNCHANGED <<startDate, postSchedule, tz>>
    /\ UNCHANGED appVars

\* the posting schedule generator
NextPostDate ==
    \/ CalculatePostDate
    \/ CalculatePostingDates

SpecPostDate == InitSchedule /\ [][NextPostDate]_vars

\* the holiday calculator
NextHolidays == GetHolidaysInRange

SpecHolidays == InitSchedule /\ [][NextHolidays]_vars

\* the alignment resolver inside generateWeeksBatch
NextAlign == GenerateWeeksBatchSchedule

SpecAlign == InitSchedule /\ [][NextAlign]_vars

----------------------------------------------------------------------------
(* src/App.tsx: the component as a state machine.  A step is a user event    *)
(* handled to completion, or the continuation of an async handler from one   *)
(* await to the next; a handler closes over the state of the render in which *)
(* the user triggered it.  specialInstructions and milestones reach only the *)
(* prompt text and are left out.                                             *)

PracticeNames == {<<>>, <<"Smile Dental">>}

PracticeUrls == {<<>>, <<"https://smile.example">>, <<"https://grin.example">>}

PracticePhones == {<<>>, <<"555-0100">>}

PracticeLocations == {<<>>, <<"Provo, UT">>}

AppStartDates == {<<>>, FirstStartDate}

OnboardingFiles == {Null, Obj([name |-> "onboarding.pdf"])}

PastPostsFiles == {Null, Obj([name |-> "past-posts.pdf"])}

AppTimeZone == [base |-> -5, dst |-> TRUE]

EditFields == {"title", "caption", "photoIdeas"}

EditValues == {<<"e", "d", "i", "t">>}

\* the responses of the external services that are explored
ResearchResponses ==
    { [rejected |-> FALSE, text |-> <<"Contact info, specials, content ideas">>,
       message |-> <<>>],
      [rejected |-> TRUE, text |-> <<>>, message |-> <<"fetch failed">>] }

RawPost(w, p) ==
    [title      |-> <<"W", Digits[w + 1], "P", Digits[p + 1]>>,
     caption    |-> <<"#", "W", Digits[w + 1], "P", Digits[p + 1]>>,
     photoIdeas |-> <<"p", "i", "c">>]

\* n weeks of two posts, numbered the wrong way round
RawWeeks(n) ==
    [i \in 1..n |-> [week |-> n + 1 - i, posts |-> <<RawPost(i - 1, 0), RawPost(i - 1, 1)>>]]

\* no text; an object without weeks is left out; 0 .. MaxWeeks weeks
PlanResponses ==
    { [empty |-> TRUE, data |-> Null] }
    \cup { [empty |-> FALSE, data |-> Obj([weeks |-> RawWeeks(n)])] : n \in 0..MaxWeeks }

\* no text; a post
SinglePostResponses ==
    { [empty |-> TRUE, data |-> Null],
      [empty |-> FALSE,
       data  |-> Obj([title      |-> <<"N", "e", "w">>,
                      caption    |-> <<"G", "o", " ", "#", "N", "e", "w", "_", "1", "!">>,
                      photoIdeas |-> <<"t", "e", "a", "m">>])] }

\* postDate.toISOString().split('T')[0]: the UTC calendar day of a local midnight
toISOString(zone, date) == CivilFromDays(getTime(zone, date) \div DayHours)

\* the component without the effect of lines 59-63
EffectPending_NoEffect == FALSE

\* the effect of lines 59-63 has work to do
EffectPending ==
    /\ Truthy(cachedResearch)
    /\ cachedResearch.value.url # practiceUrl

\* contentPlan && !isLoading && !error: ContentPlanDisplay is rendered
PlanDisplayed == Truthy(contentPlan) /\ ~isLoading /\ ~Truthy(error)

\* the user can act: the tree is mounted and the effects of the last render ran
UserCanAct == mounted /\ ~EffectPending

CanChangeForm == UserCanAct /\ used.formChanges < MaxFormChanges

FormChanged == used' = [used EXCEPT !.formChanges = @ + 1]

asyncVars == <<mounted, submission, regenerations, tz, calc, planCall>>

planVars == <<contentPlan, isLoading, error, regeneratingPosts, cachedResearch>>

contentVars == <<onboardingContent, pastPostsContent>>

fileVars == <<onboardingFile, pastPostsFile>>

formVars ==
    <<practiceName, practiceUrl, practicePhone, practiceLocation, startDate,
      postSchedule, fileVars>>

SetPracticeName ==
    /\ CanChangeForm
    /\ \E value \in PracticeNames \ {practiceName} : practiceName' = value
    /\ FormChanged
    /\ UNCHANGED <<practiceUrl, practicePhone, practiceLocation, startDate,
                   postSchedule, fileVars, contentVars, planVars, asyncVars>>

SetPracticeUrl ==
    /\ CanChangeForm
    /\ \E value \in PracticeUrls \ {practiceUrl} : practiceUrl' = value
    /\ FormChanged
    /\ UNCHANGED <<practiceName, practicePhone, practiceLocation, startDate,
                   postSchedule, fileVars, contentVars, planVars, asyncVars>>

SetPracticePhone ==
    /\ CanChangeForm
    /\ \E value \in PracticePhones \ {practicePhone} : practicePhone' = value
    /\ FormChanged
    /\ UNCHANGED <<practiceName, practiceUrl, practiceLocation, startDate,
                   postSchedule, fileVars, contentVars, planVars, asyncVars>>

SetPracticeLocation ==
    /\ CanChangeForm
    /\ \E value \in PracticeLocations \ {practiceLocation} : practiceLocation' = value
    /\ FormChanged
    /\ UNCHANGED <<practiceName, practiceUrl, practicePhone, startDate,
                   postSchedule, fileVars, contentVars, planVars, asyncVars>>

SetStartDate ==
    /\ CanChangeForm
    /\ \E value \in AppStartDates \ {startDate} : startDate' = value
    /\ FormChanged
    /\ UNCHANGED <<practiceName, practiceUrl, practicePhone, practiceLocation,
                   postSchedule, fileVars, contentVars, planVars, asyncVars>>

SetPostSchedule ==
    /\ CanChangeForm
    /\ \E value \in PostSchedules \ {postSchedule} : postSchedule' = value
    /\ FormChanged
    /\ UNCHANGED <<practiceName, practiceUrl, practicePhone, practiceLocation,
                   startDate, fileVars, contentVars, planVars, asyncVars>>

\* setOnboardingFile, and the effect of lines 50-52 that follows the render
SetOnboardingFile ==
    /\ CanChangeForm
    /\ \E file \in OnboardingFiles \ {onboardingFile} :
          /\ onboardingFile' = file
          /\ onboardingContent' = IF ~Truthy(file) THEN Undefined ELSE onboardingContent
    /\ FormChanged
    /\ UNCHANGED <<practiceName, practiceUrl, practicePhone, practiceLocation,
                   startDate, postSchedule, pastPostsFile, pastPostsContent,
                   planVars, asyncVars>>

\* setPastPostsFile, and the effect of lines 54-56 that follows the render
SetPastPostsFile ==
    /\ CanChangeForm
    /\ \E file \in PastPostsFiles \ {pastPostsFile} :
          /\ pastPostsFile' = file
          /\ pastPostsContent' = IF ~Truthy(file) THEN Undefined ELSE pastPostsContent
    /\ FormChanged
    /\ UNCHANGED <<practiceName, practiceUrl, practicePhone, practiceLocation,
                   startDate, postSchedule, onboardingFile, onboardingContent,
                   planVars, asyncVars>>

\* the effect of lines 59-63
ClearCachedResearchEffect ==
    /\ mounted
    /\ EffectPending
    /\ cachedResearch' = Null
    /\ UNCHANGED <<formVars, contentVars, contentPlan, isLoading, error,
                   regeneratingPosts, asyncVars, used>>

\* generateContentPlan entered: researchPracticeWithSearch(practiceUrl,
\* practiceName, cachedResearch || null, setCachedResearch || (() => {})) up to
\* its request, and on a cache hit generateWeeksBatch up to its request
EnterGenerateContentPlan(call) ==
    LET r == researchPracticeWithSearch(call.practiceUrl, Or(call.cachedResearch, Null))
    IN  IF r.request
        THEN [call EXCEPT !.pc = "research"]
        ELSE [call EXCEPT !.pc = "generate", !.research = r.research]

\* handleSubmit after the past posts PDF: the onboarding PDF if there is one
AfterPastPosts(call) ==
    IF Truthy(call.onboardingFile)
    THEN [call EXCEPT !.pc = "onboarding"]
    ELSE EnterGenerateContentPlan(call)

\* the validation that forgets the start date
FieldsMissing_StartDateOptional(name, url, date) == name = <<>> \/ url = <<>>

\* !practiceName || !practiceUrl || !startDate
FieldsMissing(name, url, date) == name = <<>> \/ url = <<>> \/ date = <<>>

\* handleSubmit up to its first await (the submit button is disabled while
\* isLoading).  previousPlan records the plan in state when the call began
HandleSubmit ==
    /\ UserCanAct
    /\ ~isLoading
    /\ IF FieldsMissing(practiceName, practiceUrl, startDate)
       THEN /\ error' = Str(<<"Please fill out all fields, including the start date, before generating the plan.">>)
            /\ UNCHANGED <<contentPlan, isLoading, submission, used>>
       ELSE /\ used.submits < MaxSubmits
            /\ isLoading' = TRUE
            /\ error' = Null
            /\ contentPlan' = Null
            /\ LET call == [pc             |-> "pastPosts",
                            practiceUrl    |-> practiceUrl,
                            onboardingFile |-> onboardingFile,
                            cachedResearch |-> cachedResearch,
                            previousPlan   |-> contentPlan,
                            research       |-> <<>>]
               IN  submission' = IF Truthy(pastPostsFile) THEN call ELSE AfterPastPosts(call)
            /\ used' = [used EXCEPT !.submits = @ + 1]
    /\ UNCHANGED <<formVars, contentVars, regeneratingPosts, cachedResearch,
                   mounted, regenerations, tz, calc, planCall>>

\* handleSubmit from `await extractTextFromPdf(pastPostsFile)` on
ExtractPastPostsPdf ==
    /\ mounted
    /\ submission.pc = "pastPosts"
    /\ \E ok \in BOOLEAN :
          IF ok
          THEN /\ pastPostsContent' = Str(<<"text of past-posts.pdf">>)
               /\ submission' = AfterPastPosts(submission)
               /\ UNCHANGED <<error, isLoading>>
          ELSE /\ error' = Str(<<"There was an issue reading the past posts PDF file. Please ensure it's a valid PDF and try again.">>)
               /\ isLoading' = FALSE
               /\ submission' = Idle
               /\ UNCHANGED pastPostsContent
    /\ UNCHANGED <<formVars, onboardingContent, contentPlan, regeneratingPosts,
                   cachedResearch, mounted, regenerations, tz, calc, planCall, used>>

\* handleSubmit from `await extractTextFromPdf(onboardingFile)` on
ExtractOnboardingPdf ==
    /\ mounted
    /\ submission.pc = "onboarding"
    /\ \E ok \in BOOLEAN :
          IF ok
          THEN /\ onboardingContent' = Str(<<"text of onboarding.pdf">>)
               /\ submission' = EnterGenerateContentPlan(submission)
               /\ UNCHANGED <<error, isLoading>>
          ELSE /\ error' = Str(<<"There was an issue reading the onboarding PDF file. Please ensure it's a valid PDF and try again.">>)
               /\ isLoading' = FALSE
               /\ submission' = Idle
               /\ UNCHANGED onboardingContent
    /\ UNCHANGED <<formVars, pastPostsContent, contentPlan, regeneratingPosts,
                   cachedResearch, mounted, regenerations, tz, calc, planCall, used>>

\* generateContentPlan from this response to its research request on
SubmitResearchResponseOf(response) ==
    /\ submission.pc = "research"
    /\ LET r == researchResponse(submission.practiceUrl, response,
                                 Or(Fn("setCachedResearch"), Fn("noop")))
       IN  /\ cachedResearch' = IF r.cache # <<>> THEN r.cache[1] ELSE cachedResearch
           /\ submission' = [submission EXCEPT !.pc = "generate",
                                               !.research = r.research]

\* generateContentPlan from the response to its research request on
SubmitResearchResponse ==
    /\ mounted
    /\ \E response \in ResearchResponses : SubmitResearchResponseOf(response)
    /\ UNCHANGED <<formVars, contentVars, contentPlan, isLoading, error,
                   regeneratingPosts, mounted, regenerations, tz, calc, planCall, used>>

\* generateWeeksBatch from the response to its generation request on, and the
\* rest of handleSubmit
SubmitGenerationResponse ==
    /\ mounted
    /\ submission.pc = "generate"
    /\ \E response \in PlanResponses :
          LET r == generateWeeksBatchResult(response, 1)
          IN  IF r.throws
              THEN /\ error' = Str(<<"Failed to generate content plan.", " ">> \o r.message)
                   /\ UNCHANGED contentPlan
              ELSE /\ contentPlan' = Obj(r.weeks)
                   /\ UNCHANGED error
    /\ isLoading' = FALSE
    /\ submission' = Idle
    /\ UNCHANGED <<formVars, contentVars, regeneratingPosts, cachedResearch,
                   mounted, regenerations, tz, calc, planCall, used>>

\* handleContentPlanChange, called by the text areas of a displayed PostCard
HandleContentPlanChange ==
    /\ UserCanAct
    /\ PlanDisplayed
    /\ used.edits < MaxEdits
    /\ \E weekIndex \in 0..(Len(contentPlan.value) - 1), postIndex \in 0..1,
          field \in EditFields, value \in EditValues :
          /\ HasPost(contentPlan.value, weekIndex, postIndex)
          /\ contentPlan' = handleContentPlanChange(contentPlan, weekIndex, postIndex,
                                                    field, value).state
    /\ used' = [used EXCEPT !.edits = @ + 1]
    /\ UNCHANGED <<formVars, contentVars, isLoading, error, regeneratingPosts,
                   cachedResearch, asyncVars>>

\* the parameters of generateSinglePost (geminiService.ts 1102-1115)
GenerateSinglePostParameters ==
    <<"practiceName", "practiceUrl", "currentPlan", "postToReplace", "postDate",
      "instructions", "aiProvider", "onboardingContent", "pastPostsContent",
      "specialInstructions", "cachedResearch", "setCachedResearch">>

\* the arguments of the call of generateSinglePost in handleRegeneratePost
\* (App.tsx 148-163); instructions and specialInstructions are left empty.
\* practicePhone and practiceLocation are missing from the dependencies of the
\* callback (line 184), so the call may pass those of an earlier render: strings
\* in either case, the values of the current render are taken
GenerateSinglePostArguments(weekIndex, postIndex) ==
    <<Str(practiceName),
      Str(practiceUrl),
      contentPlan,
      Obj([weekIndex |-> weekIndex, postIndex |-> postIndex]),
      Str(toISOString(tz, calculatePostDate(startDate, weekIndex, postIndex,
                                            postSchedule))),
      Str(<<>>),
      Str(<<"gemini">>),
      onboardingContent,
      pastPostsContent,
      Str(<<>>),
      Str(practicePhone),
      Str(practiceLocation),
      cachedResearch,
      Fn("setCachedResearch")>>

\* a call binds its arguments to the parameters by position; the arguments
\* beyond the last parameter are dropped
BindArguments(parameters, arguments) ==
    [name \in Range(parameters) |->
        arguments[CHOOSE i \in 1..Len(parameters) : parameters[i] = name]]

\* generateSinglePost entered with its parameters bound: up to the request of
\* researchPracticeWithSearch(practiceUrl, practiceName, cachedResearch || null,
\* setCachedResearch || (() => {})), or on a cache hit up to the generation request
EnterGenerateSinglePost(bound) ==
    LET r == researchPracticeWithSearch(bound.practiceUrl.value,
                                        Or(bound.cachedResearch, Null))
    IN  [weekIndex         |-> bound.postToReplace.value.weekIndex,
         postIndex         |-> bound.postToReplace.value.postIndex,
         pc                |-> IF r.request THEN "research" ELSE "generate",
         currentPlan       |-> bound.currentPlan,
         practiceUrl       |-> bound.practiceUrl.value,
         postDate          |-> bound.postDate,
         cachedResearch    |-> bound.cachedResearch,
         setCachedResearch |-> bound.setCachedResearch]

\* handleRegeneratePost up to its first await, called by the button of a
\* displayed PostCard, which is disabled while the post is regenerating.  With
\* an empty start date postDate is an invalid Date and toISOString throws.
\* submitsBefore records how many submissions had begun when the call began
HandleRegeneratePost ==
    /\ UserCanAct
    /\ PlanDisplayed
    /\ used.regens < MaxRegens
    /\ \E weekIndex \in 0..(Len(contentPlan.value) - 1), postIndex \in 0..1 :
          /\ HasPost(contentPlan.value, weekIndex, postIndex)
          /\ postKey(weekIndex, postIndex) \notin regeneratingPosts
          /\ IF startDate = <<>>
             THEN /\ error' = Str(<<"Failed to regenerate post.", " ", "Invalid time value">>)
                  /\ regeneratingPosts' =
                        (regeneratingPosts \cup {postKey(weekIndex, postIndex)})
                            \ {postKey(weekIndex, postIndex)}
                  /\ UNCHANGED regenerations
             ELSE /\ error' = Null
                  /\ regeneratingPosts' =
                        regeneratingPosts \cup {postKey(weekIndex, postIndex)}
                  /\ regenerations' = regenerations \cup
                        {EnterGenerateSinglePost(
                            BindArguments(GenerateSinglePostParameters,
                                GenerateSinglePostArguments(weekIndex, postIndex)))
                         @@ [submitsBefore |-> used.submits]}
    /\ used' = [used EXCEPT !.regens = @ + 1]
    /\ UNCHANGED <<formVars, contentVars, contentPlan, isLoading, cachedResearch,
                   mounted, submission, tz, calc, planCall>>

\* generateSinglePost of this call from this response to its research request on
RegenerateResearchResponseOf(call, response) ==
    /\ call.pc = "research"
    /\ LET r == researchResponse(call.practiceUrl, response,
                                 Or(call.setCachedResearch, Fn("noop")))
       IN  /\ cachedResearch' = IF r.cache # <<>> THEN r.cache[1]
                                ELSE cachedResearch
           /\ regenerations' = (regenerations \ {call}) \cup
                 {[call EXCEPT !.pc = "generate"]}

\* generateSinglePost from the response to its research request on
RegenerateResearchResponse ==
    /\ mounted
    /\ \E call \in regenerations, response \in ResearchResponses :
          RegenerateResearchResponseOf(call, response)
    /\ UNCHANGED <<formVars, contentVars, contentPlan, isLoading, error,
                   regeneratingPosts, mounted, submission, tz, calc, planCall, used>>

\* generateSinglePost from the response to its generation request on, and the
\* rest of handleRegeneratePost.  An updater that throws does so while React
\* renders, outside the handler's try: the tree is unmounted
RegenerateGenerationResponse ==
    /\ mounted
    /\ \E call \in regenerations, response \in SinglePostResponses :
          /\ call.pc = "generate"
          /\ LET r      == generateSinglePostResult(response)
                 key    == postKey(call.weekIndex, call.postIndex)
                 update == regeneratePostUpdate(contentPlan, call.currentPlan,
                                                call.weekIndex, call.postIndex, r.post)
             IN  IF r.throws
                 THEN /\ error' = Str(<<"Failed to regenerate post.", " ">> \o r.message)
                      /\ regeneratingPosts' = regeneratingPosts \ {key}
                      /\ UNCHANGED <<contentPlan, mounted>>
                 ELSE IF update.throws
                      THEN /\ mounted' = FALSE
                           /\ UNCHANGED <<contentPlan, error, regeneratingPosts>>
                      ELSE /\ contentPlan' = update.state
                           /\ regeneratingPosts' = regeneratingPosts \ {key}
                           /\ UNCHANGED <<error, mounted>>
          /\ regenerations' = regenerations \ {call}
    /\ UNCHANGED <<formVars, contentVars, isLoading, cachedResearch, submission,
                   tz, calc, planCall, used>>

InitApp ==
    /\ AppConstructed
    /\ startDate = <<>>
    /\ postSchedule = "MW"
    /\ tz = AppTimeZone
    /\ calc = NoCalc

\* the user fills in name, URL and start date, attaches the past posts PDF,
\* submits, edits and regenerates posts
NextApp ==
    \/ SetPracticeName
    \/ SetPracticeUrl
    \/ SetStartDate
    \/ SetPastPostsFile
    \/ ClearCachedResearchEffect
    \/ HandleSubmit
    \/ ExtractPastPostsPdf
    \/ SubmitResearchResponse
    \/ SubmitGenerationResponse
    \/ HandleContentPlanChange
    \/ HandleRegeneratePost
    \/ RegenerateResearchResponse
    \/ RegenerateGenerationResponse

SpecApp == InitApp /\ [][NextApp]_vars

\* the user fills in every field of the form but the past posts PDF, submits
\* and regenerates posts
NextContact ==
    \/ SetPracticeName
    \/ SetPracticeUrl
    \/ SetPracticePhone
    \/ SetPracticeLocation
    \/ SetStartDate
    \/ SetPostSchedule
    \/ SetOnboardingFile
    \/ ClearCachedResearchEffect
    \/ HandleSubmit
    \/ ExtractOnboardingPdf
    \/ SubmitResearchResponse
    \/ SubmitGenerationResponse
    \/ HandleRegeneratePost
    \/ RegenerateResearchResponse
    \/ RegenerateGenerationResponse

SpecContact == InitApp /\ [][NextContact]_vars

\* the user fills in name, URL and start date and submits; React runs the
\* effect of lines 59-63 after every render in which practiceUrl or
\* cachedResearch changed
NextCache ==
    \/ SetPracticeName
    \/ SetPracticeUrl
    \/ SetStartDate
    \/ ClearCachedResearchEffect
    \/ HandleSubmit
    \/ SubmitResearchResponse
    \/ SubmitGenerationResponse

SpecCache == InitApp /\ [][NextCache]_vars /\ WF_vars(ClearCachedResearchEffect)

----------------------------------------------------------------------------
(* handleContentPlanChange applied to bounded inputs *)

\* post.photoIdeas is optional (src/unnamed/part_009): the plan without it
WithoutPhotoIdeas(plan) ==
    [i \in 1..Len(plan) |->
        [plan[i] EXCEPT !.posts =
            [j \in 1..Len(@) |-> [title |-> @[j].title, caption |-> @[j].caption]]]]

\* no plan; a generated plan of 1 .. MaxEditWeeks weeks, with and without photo ideas
EditPlans ==
    {Null}
    \cup {Obj(processedWeeks(RawWeeks(n), 1)) : n \in 1..MaxEditWeeks}
    \cup {Obj(WithoutPhotoIdeas(processedWeeks(RawWeeks(n), 1))) : n \in 1..MaxEditWeeks}

\* what the user leaves in a text area: nothing, or a text no post holds
TextAreaValues == {<<>>, <<"e", "d", "i", "t">>}

\* the updater of handleContentPlanChange run on a plan, for a post the plan has
ApplyContentPlanChange ==
    /\ calc = NoCalc
    /\ \E currentPlan \in EditPlans, weekIndex \in 0..(MaxEditWeeks - 1),
          postIndex \in 0..1, field \in EditFields, value \in TextAreaValues :
          /\ Truthy(currentPlan) => HasPost(currentPlan.value, weekIndex, postIndex)
          /\ calc' = [op          |-> "handleContentPlanChange",
                      currentPlan |-> currentPlan,
                      weekIndex   |-> weekIndex,
                      postIndex   |-> postIndex,
                      field       |-> field,
                      value       |-> value,
                      update      |-> handleContentPlanChange(currentPlan, weekIndex,
                                                              postIndex, field, value)]
    /\ UNCHANGED <<startDate, postSchedule, tz>>
    /\ UNCHANGED appVars

NextPlanEdit == ApplyContentPlanChange

SpecPlanEdit == InitApp /\ [][NextPlanEdit]_vars

----------------------------------------------------------------------------
(* generateWeeksBatch applied to bounded responses *)

\* the week ranges the code requests: the three batches of the earlier
\* generateContentPlan (lines 284-337) and the single call of the later one
BatchRanges ==
    { [weekStart |-> 1, weekEnd |-> 4],
      [weekStart |-> 5, weekEnd |-> 8],
      [weekStart |-> 9, weekEnd |-> 12],
      [weekStart |-> 1, weekEnd |-> PlanWeeks] }

\* how the response labels its weeks: every week 1, counted down, counted up from 1
WeekLabels == {"ones", "down", "up"}

LabelOf(labels, n, i) ==
    CASE labels = "ones" -> 1
      [] labels = "down" -> n + 1 - i
      [] OTHER           -> i

\* the weeks of a response: n weeks of the same number of posts
ResponseWeeks(n, labels, posts) ==
    [i \in 1..n |->
        [week  |-> LabelOf(labels, n, i),
         posts |-> [j \in 1..posts |-> RawPost((i - 1) % 10, j - 1)]]]

WeeksResponses ==
    { [empty |-> TRUE, data |-> Null] }
    \cup { [empty |-> FALSE, data |-> Obj([weeks |-> ResponseWeeks(n, labels, posts)])] :
             n \in 0..MaxResponseWeeks, labels \in WeekLabels,
             posts \in 1..MaxResponsePosts }

\* generateWeeksBatch(..., weekStart, weekEnd, ...) from its response on
ProcessWeeksResponse ==
    /\ calc = NoCalc
    /\ \E range \in BatchRanges, response \in WeeksResponses :
          calc' = [op        |-> "generateWeeksBatchResult",
                   weekStart |-> range.weekStart,
                   weekEnd   |-> range.weekEnd,
                   response  |-> response,
                   result    |-> generateWeeksBatchResult(response, range.weekStart)]
    /\ UNCHANGED <<startDate, postSchedule, tz>>
    /\ UNCHANGED appVars

NextWeeksBatch == ProcessWeeksResponse

SpecWeeksBatch == InitApp /\ [][NextWeeksBatch]_vars

----------------------------------------------------------------------------
(* The request of generateWeeksBatch with user-supplied milestones *)

\* days from the start date to the milestones explored: both inside the
\* twelve weeks of the plan
BirthdayOffset == 10

AnniversaryOffset == 40

\* the milestones of the form (App.tsx 36): none, a birthday, a birthday and a
\* work anniversary
MilestoneLists ==
    LET start    == ParseLocalMidnight(startDate)
        birthday == [name |-> "Dr. Green", type |-> "birthday",
                     date |-> formatIso(start + BirthdayOffset)]
        workAnniversary ==
                    [name |-> "Sam", type |-> "work-anniversary",
                     date |-> formatIso(start + AnniversaryOffset)]
    IN  {<<>>, <<birthday>>, <<birthday, workAnniversary>>}

\* generateWeeksBatch up to its request, called with milestonesToString(milestones)
BuildWeeksBatchRequest ==
    /\ calc = NoCalc
    /\ \E milestones \in MilestoneLists :
          LET schedule == batchSchedule(tz, startDate, postSchedule)
          IN  calc' = [op               |-> "generateWeeksBatchRequest",
                       milestones       |-> milestones,
                       allPostingSlots  |-> schedule.allPostingSlots,
                       planStart        |-> schedule.planStart,
                       planEnd          |-> schedule.planEnd,
                       request          |-> anchorSections(
                                               milestonesToString(milestones),
                                               schedule.holidayAlignment)]
    /\ UNCHANGED <<startDate, postSchedule, tz>>
    /\ UNCHANGED appVars

NextWeeksBatchRequest == BuildWeeksBatchRequest

SpecWeeksBatchRequest == InitSchedule /\ [][NextWeeksBatchRequest]_vars

----------------------------------------------------------------------------
(* The alignment rule of generateWeeksBatch applied to bounded inputs *)

\* days from the start date to the anchor: before every slot, the day before
\* the start, the start, between slots, after every slot
AnchorOffsets == {-15, -1, 0, 3, 200}

\* the rule of lines 753-805 for one anchor, applied to the sorted slots of a
\* schedule of 0 .. MaxAlignWeeks weeks
AlignAnchor ==
    /\ calc = NoCalc
    /\ \E numWeeks \in 0..MaxAlignWeeks, offset \in AnchorOffsets :
          LET slots  == allPostingSlots(tz,
                            calculatePostingDates(tz, startDate, postSchedule, numWeeks))
              anchor == [name |-> "anchor",
                         date |-> ParseLocalMidnight(startDate) + offset]
          IN  calc' = [op      |-> "alignHoliday",
                       slots   |-> slots,
                       holiday |-> anchor,
                       result  |-> alignHoliday(tz, slots, anchor)]
    /\ UNCHANGED <<startDate, postSchedule, tz>>
    /\ UNCHANGED appVars

NextAlignRule == AlignAnchor

SpecAlignRule == InitSchedule /\ [][NextAlignRule]_vars

----------------------------------------------------------------------------
(* The generateContentPlan that requests three batches concurrently         *)
(* (geminiService.ts 261-337), awaited by handleSubmit.  A promise is        *)
(* pending, fulfilled with a value or rejected with a reason.                *)

Pending == [state |-> "pending"]

Fulfilled(value) == [state |-> "fulfilled", value |-> value]

Rejected(reason) == [state |-> "rejected", reason |-> reason]

\* the earlier generateWeeksBatch (lines 76-259) from its response on
generateWeeksBatchEarlierResult(response, weekStart) ==
    IF response.empty
    THEN [throws  |-> TRUE,
          message |-> <<"Failed to generate content plan. Please check the website URL and try again. Details: ",
                        "Received an empty response from the AI.">>]
    ELSE IF Truthy(response.data) /\ "weeks" \in DOMAIN response.data.value
         THEN [throws |-> FALSE,
               weeks  |-> processedWeeks(response.data.value.weeks, weekStart)]
         ELSE [throws  |-> TRUE,
               message |-> <<"Failed to generate content plan. Please check the website URL and try again. Details: ",
                             "Invalid data structure received from AI. The 'weeks' array is missing.">>]

\* the first week of the batches: generateWeeksBatch(..., 1, 4), (..., 5, 8), (..., 9, 12)
BatchWeekStart == <<1, 5, 9>>

\* Promise.allSettled in the place of Promise.all, a rejected batch counted as no weeks
promiseAll_Settled(promises, order) ==
    IF \E i \in DOMAIN promises : promises[i].state = "pending"
    THEN Pending
    ELSE Fulfilled([i \in DOMAIN promises |->
                       IF promises[i].state = "fulfilled" THEN promises[i].value
                       ELSE <<>>])

\* Promise.all(promises): rejected with the reason of the first promise that
\* rejected (order: the promises in the order they settled), fulfilled with
\* the values in the order of the promises once all are fulfilled
promiseAll(promises, order) ==
    IF \E i \in DOMAIN promises : promises[i].state = "rejected"
    THEN LET first == CHOOSE k \in 1..Len(order) :
                          /\ promises[order[k]].state = "rejected"
                          /\ \A j \in 1..(k - 1) : promises[order[j]].state # "rejected"
         IN  Rejected(promises[order[first]].reason)
    ELSE IF \A i \in DOMAIN promises : promises[i].state = "fulfilled"
         THEN Fulfilled([i \in DOMAIN promises |-> promises[i].value])
         ELSE Pending

\* the batches joined in the order they completed
combineBatches_CompletionOrder(values, order) ==
    values[order[1]] \o values[order[2]] \o values[order[3]]

\* return [...batch1, ...batch2, ...batch3]
combineBatches(values, order) == values[1] \o values[2] \o values[3]

\* the responses to the request of a batch: no text, four weeks, three weeks,
\* every week labelled 1
BatchResponses ==
    { [empty |-> TRUE, data |-> Null],
      [empty |-> FALSE, data |-> Obj([weeks |-> ResponseWeeks(4, "ones", 2)])],
      [empty |-> FALSE, data |-> Obj([weeks |-> ResponseWeeks(3, "ones", 2)])] }

\* App when handleSubmit has reached `await generateContentPlan(...)` for the
\* first time, without PDF files
InitBatched ==
    /\ practiceName = <<"Smile Dental">>
    /\ practiceUrl = <<"https://smile.example">>
    /\ practicePhone = <<>>
    /\ practiceLocation = <<>>
    /\ startDate = FirstStartDate
    /\ postSchedule = "MW"
    /\ onboardingFile = Null
    /\ pastPostsFile = Null
    /\ contentPlan = Null
    /\ isLoading = TRUE
    /\ error = Null
    /\ regeneratingPosts = {}
    /\ onboardingContent = Undefined
    /\ pastPostsContent = Undefined
    /\ cachedResearch = Null
    /\ mounted = TRUE
    /\ submission = Idle
    /\ regenerations = {}
    /\ planCall = NoPlanCall
    /\ used = NothingUsed
    /\ tz = AppTimeZone
    /\ calc = NoCalc

\* generateContentPlan after its research: the three generateWeeksBatch calls
\* are made, each runs up to its request, and Promise.all awaits them
StartBatches ==
    /\ planCall.pc = "idle"
    /\ planCall' = [pc      |-> "batches",
                    batches |-> <<Pending, Pending, Pending>>,
                    order   |-> <<>>]
    /\ UNCHANGED <<formVars, contentVars, planVars, mounted, submission,
                   regenerations, tz, calc, used>>

\* the response to the request of one batch arrives: that generateWeeksBatch
\* settles, then Promise.all, generateContentPlan and the rest of handleSubmit
\* (App.tsx 117-124) if this settles them
BatchResponse ==
    /\ planCall.pc \in {"batches", "rejected"}
    /\ \E i \in 1..3, response \in BatchResponses :
          /\ planCall.batches[i].state = "pending"
          /\ LET r       == generateWeeksBatchEarlierResult(response, BatchWeekStart[i])
                 batches == [planCall.batches EXCEPT
                                ![i] = IF r.throws THEN Rejected(r.message)
                                       ELSE Fulfilled(r.weeks)]
                 order   == Append(planCall.order, i)
                 all     == promiseAll(batches, order)
             IN  IF planCall.pc = "rejected" \/ all.state = "pending"
                 THEN /\ planCall' = [planCall EXCEPT !.batches = batches,
                                                      !.order = order]
                      /\ UNCHANGED <<contentPlan, error, isLoading>>
                 ELSE IF all.state = "rejected"
                 THEN /\ planCall' = [planCall EXCEPT !.pc = "rejected",
                                                      !.batches = batches,
                                                      !.order = order]
                      /\ error' = Str(<<"Failed to generate content plan.", " ">>
                                      \o all.reason)
                      /\ isLoading' = FALSE
                      /\ UNCHANGED contentPlan
                 ELSE /\ planCall' = [planCall EXCEPT !.pc = "fulfilled",
                                                      !.batches = batches,
                                                      !.order = order]
                      /\ contentPlan' = Obj(combineBatches(all.value, order))
                      /\ isLoading' = FALSE
                      /\ UNCHANGED error
    /\ UNCHANGED <<formVars, contentVars, regeneratingPosts, cachedResearch,
                   mounted, submission, regenerations, tz, calc, used>>

NextBatched ==
    \/ StartBatches
    \/ BatchResponse

SpecBatched == InitBatched /\ [][NextBatched]_vars

----------------------------------------------------------------------------
(* The handling of a generation response applied to bounded texts *)

\* what the JSON of a full-plan response denotes: null, an object without
\* weeks, no weeks, two weeks, a week without posts, a post without caption
PlanData ==
    { Null,
      Obj([message |-> <<"s", "o", "r", "r", "y">>]),
      Obj([weeks |-> <<>>]),
      Obj([weeks |-> RawWeeks(2)]),
      Obj([weeks |-> <<[week |-> 1]>>]),
      Obj([weeks |-> <<[week |-> 1, posts |-> <<[title |-> <<"T">>]>>]>>]) }

\* what the JSON of a single-post response denotes: null, an object without a
\* post, a post, a post under post, posts and weeks, posts that lack a title
\* or a caption or have an empty one
PostData ==
    { Null,
      Obj([message |-> <<"s", "o", "r", "r", "y">>]),
      Obj(RawPost(0, 0)),
      Obj([post |-> RawPost(0, 0)]),
      Obj([posts |-> <<RawPost(0, 0), RawPost(0, 1)>>]),
      Obj([weeks |-> RawWeeks(2)]),
      Obj([title |-> <<"T">>]),
      Obj([caption |-> <<"C">>]),
      Obj([title |-> <<>>, caption |-> <<"C">>]) }

ResponseTexts(data) ==
    { [empty |-> TRUE, fenced |-> FALSE, defects |-> {}, data |-> Null] }
    \cup { [empty |-> FALSE, fenced |-> fenced, defects |-> defects, data |-> d] :
             fenced \in BOOLEAN, defects \in SUBSET TextDefects, d \in data }

\* generateWeeksBatch(..., 1, 12, ...) from the text of its response on
HandlePlanResponseText ==
    /\ calc = NoCalc
    /\ \E text \in ResponseTexts(PlanData) :
          calc' = [op     |-> "generationResponse",
                   kind   |-> "plan",
                   text   |-> text,
                   parsed |-> IF text.empty THEN [throws |-> TRUE, repairs |-> 0]
                              ELSE parseJsonSafely(cleanJson(text)),
                   result |-> generateWeeksBatchFromText(text, 1)]
    /\ UNCHANGED <<startDate, postSchedule, tz>>
    /\ UNCHANGED appVars

\* generateSinglePost from the text of its response on
HandlePostResponseText ==
    /\ calc = NoCalc
    /\ \E text \in ResponseTexts(PostData) :
          calc' = [op     |-> "generationResponse",
                   kind   |-> "post",
                   text   |-> text,
                   parsed |-> IF text.empty THEN [throws |-> TRUE, repairs |-> 0]
                              ELSE parseJsonSafely(cleanJson(text)),
                   result |-> generateSinglePostFromText(text)]
    /\ UNCHANGED <<startDate, postSchedule, tz>>
    /\ UNCHANGED appVars

NextResponseText ==
    \/ HandlePlanResponseText
    \/ HandlePostResponseText

SpecResponseText == InitApp /\ [][NextResponseText]_vars

----------------------------------------------------------------------------
(* calculatePostingDates applied to week counts around zero *)

\* the week counts tried are -MaxNonPositiveWeeks..1
MaxNonPositiveWeeks == 2

\* calculatePostingDates(startDate, postSchedule, numWeeks): it has no throw
\* statement; its loop `week < numWeeks` runs no iteration for numWeeks <= 0
BuildSchedule ==
    /\ calc = NoCalc
    /\ \E numWeeks \in (0 - MaxNonPositiveWeeks)..1 :
          calc' = [op       |-> "buildSchedule",
                   numWeeks |-> numWeeks,
                   result   |-> [throws |-> FALSE,
                                 dates  |-> calculatePostingDates(tz, startDate,
                                                                  postSchedule, numWeeks)]]
    /\ UNCHANGED <<startDate, postSchedule, tz>>
    /\ UNCHANGED appVars

NextScheduleLength == BuildSchedule

SpecScheduleLength == InitSchedule /\ [][NextScheduleLength]_vars

----------------------------------------------------------------------------
(* The holiday rules of holidayUtils applied to bounded years *)

\* calculateEasterSunday is applied to EasterFirstYear .. EasterFirstYear +
\* NumEasterYears - 1
EasterFirstYear == 1900

NumEasterYears == 400

\* the weekday rules are applied to CalendarFirstYear .. CalendarFirstYear +
\* NumCalendarYears - 1, a span with leap years and the century leap year 2000
CalendarFirstYear == 1999

NumCalendarYears == 30

CalendarYears == CalendarFirstYear..(CalendarFirstYear + NumCalendarYears - 1)

\* calculateEasterSunday(year)
CalculateEasterSunday ==
    /\ calc = NoCalc
    /\ \E year \in EasterFirstYear..(EasterFirstYear + NumEasterYears - 1) :
          calc' = [op   |-> "calculateEasterSunday",
                   year |-> year,
                   date |-> calculateEasterSunday(year)]
    /\ UNCHANGED <<startDate, postSchedule, tz>>
    /\ UNCHANGED appVars

\* nthWeekdayOfMonth(year, monthIndex, weekday, occurrence)
NthWeekdayOfMonth ==
    /\ calc = NoCalc
    /\ \E year \in CalendarYears, monthIndex \in 0..11, weekday \in 0..6,
          occurrence \in 1..4 :
          calc' = [op         |-> "nthWeekdayOfMonth",
                   year       |-> year,
                   monthIndex |-> monthIndex,
                   weekday    |-> weekday,
                   occurrence |-> occurrence,
                   date       |-> nthWeekdayOfMonth(year, monthIndex, weekday, occurrence)]
    /\ UNCHANGED <<startDate, postSchedule, tz>>
    /\ UNCHANGED appVars

\* lastWeekdayOfMonth(year, monthIndex, weekday)
LastWeekdayOfMonth ==
    /\ calc = NoCalc
    /\ \E year \in CalendarYears, monthIndex \in 0..11, weekday \in 0..6 :
          calc' = [op         |-> "lastWeekdayOfMonth",
                   year       |-> year,
                   monthIndex |-> monthIndex,
                   weekday    |-> weekday,
                   date       |-> lastWeekdayOfMonth(year, monthIndex, weekday)]
    /\ UNCHANGED <<startDate, postSchedule, tz>>
    /\ UNCHANGED appVars

\* generator(year) for a generator of HOLIDAY_GENERATORS
GenerateHoliday ==
    /\ calc = NoCalc
    /\ \E year \in CalendarYears, g \in 1..Len(HOLIDAY_GENERATORS) :
          calc' = [op      |-> "generator",
                   year    |-> year,
                   holiday |-> Generate(HOLIDAY_GENERATORS[g], year)]
    /\ UNCHANGED <<startDate, postSchedule, tz>>
    /\ UNCHANGED appVars

NextCalendar ==
    \/ CalculateEasterSunday
    \/ NthWeekdayOfMonth
    \/ LastWeekdayOfMonth
    \/ GenerateHoliday

SpecCalendar == InitApp /\ [][NextCalendar]_vars

----------------------------------------------------------------------------
(* The hashtag normalization applied to bounded captions *)

MaxCaptionLen == 4

\* a hash, an uppercase and a lowercase letter, another word character and a
\* character that ends a tag
CaptionChars == {"#", "A", "b", "_", " "}

Captions == UNION { [1..n -> CaptionChars] : n \in 0..MaxCaptionLen }

\* post.caption.replace(/#(\w+)/g, ...) applied to a caption, and to its result
NormalizeCaption ==
    /\ calc = NoCalc
    /\ \E caption \in Captions :
          calc' = [op      |-> "lowercaseHashtags",
                   caption |-> caption,
                   once    |-> lowercaseHashtags(caption),
                   twice   |-> lowercaseHashtags(lowercaseHashtags(caption))]
    /\ UNCHANGED <<startDate, postSchedule, tz>>
    /\ UNCHANGED appVars

NextHashtags == NormalizeCaption

SpecHashtags == InitApp /\ [][NextHashtags]_vars

----------------------------------------------------------------------------
(* The duplicate-avoidance list of generateSinglePost on bounded plans *)

\* plans of 1 .. MaxListWeeks weeks are handed to generateSinglePost
MaxListWeeks == 12

\* post p (0-based) of week w: title 'WwwPp', caption 'cap WwwPp'
ListPost(w, p) ==
    LET id == <<"W", Digits[(w \div 10) + 1], Digits[(w % 10) + 1], "P", Digits[p + 1]>>
    IN  [title      |-> id,
         caption    |-> <<"c", "a", "p", " ">> \o id,
         photoIdeas |-> <<"p", "i", "c">>]

\* a generated plan of n weeks of two posts
ListPlan(n) == [w \in 1..n |-> [week |-> w, posts |-> <<ListPost(w, 0), ListPost(w, 1)>>]]

\* generateSinglePost(..., currentPlan, { weekIndex, postIndex }, ...) up to
\* existingPostsText
BuildExistingPostsText ==
    /\ calc = NoCalc
    /\ \E n \in 1..MaxListWeeks :
          \E weekIndex \in 0..(n - 1), postIndex \in 0..1 :
             calc' = [op          |-> "existingPostsText",
                      currentPlan |-> ListPlan(n),
                      weekIndex   |-> weekIndex,
                      postIndex   |-> postIndex,
                      lines       |-> existingPostsText(ListPlan(n),
                                         [weekIndex |-> weekIndex, postIndex |-> postIndex])]
    /\ UNCHANGED <<startDate, postSchedule, tz>>
    /\ UNCHANGED appVars

NextExistingPosts == BuildExistingPostsText

SpecExistingPosts == InitApp /\ [][NextExistingPosts]_vars

----------------------------------------------------------------------------
(* The date handleRegeneratePost passes on, for bounded slots and time zones *)

\* handleRegeneratePost, lines 146-153: postDate and the YYYY-MM-DD string
\* passed to generateSinglePost; listed is the iso of the same slot in the
\* schedule of calculatePostingDates (formatIso)
PassPostDate ==
    /\ calc = NoCalc
    /\ \E weekIndex \in 0..(MaxNumWeeks - 1), postIndex \in 0..1 :
          LET postDate == calculatePostDate(startDate, weekIndex, postIndex, postSchedule)
          IN  calc' = [op        |-> "passPostDate",
                       weekIndex |-> weekIndex,
                       postIndex |-> postIndex,
                       postDate  |-> postDate,
                       passed    |-> toISOString(tz, postDate),
                       listed    |-> formatIso(postDate)]
    /\ UNCHANGED <<startDate, postSchedule, tz>>
    /\ UNCHANGED appVars

NextPassPostDate == PassPostDate

SpecPassPostDate == InitSchedule /\ [][NextPassPostDate]_vars

----------------------------------------------------------------------------
(* Properties of the scheduling engine *)

\* C1: every holiday handed to the alignment step of generateWeeksBatch that has a
\* slot on or before it is assigned the latest such slot, never a later one; the
\* relation is "exact" with distance 0 when the dates are equal and "before"
\* otherwise, and the distance is the number of days from the slot to the holiday.
C1_AlignLatestSlotNotAfter ==
    calc.op = "generateWeeksBatch" =>
        \A h \in Range(calc.holidaysInRange) :
            LET notAfter == {s \in Range(calc.allPostingSlots) : s.dateObj <= h.date}
                mine     == {a \in Range(calc.holidayAlignment) : a.holiday = h}
            IN  notAfter # {} =>
                    /\ Cardinality(mine) = 1
                    /\ \A a \in mine :
                          /\ a.slot \in notAfter
                          /\ \A s \in notAfter : s.dateObj <= a.slot.dateObj
                          /\ a.relation = (IF a.slot.dateObj = h.date
                                           THEN "exact" ELSE "before")
                          /\ a.absDiffDays = h.date - a.slot.dateObj
                          /\ (a.relation = "exact" => a.absDiffDays = 0)

\* a plan with a holiday on a slot date and a holiday whose following slot is
\* nearer than the slot chosen before it
C1_Witness ==
    /\ calc.op = "generateWeeksBatch"
    /\ \E a \in Range(calc.holidayAlignment) : a.relation = "exact"
    /\ \E a \in Range(calc.holidayAlignment) :
          /\ a.relation = "before"
          /\ \E s \in Range(calc.allPostingSlots) :
                /\ s.dateObj > a.holiday.date
                /\ s.dateObj - a.holiday.date < a.holiday.date - a.slot.dateObj

\* C2: for week index 0 and post index 0, calculatePostDate returns the earliest
\* date on or after the start date whose weekday is the first weekday of the pair
\* (Monday for MW, Tuesday for TTH).
C2_FirstSlotIsEarliestFirstWeekday ==
    (calc.op = "calculatePostDate" /\ calc.weekIndex = 0 /\ calc.postIndex = 0) =>
        LET start == ParseLocalMidnight(startDate)
            first == IF postSchedule = "MW" THEN 1 ELSE 2
        IN  /\ calc.date >= start
            /\ getDay(calc.date) = first
            /\ \A d \in start..(calc.date - 1) : getDay(d) # first

\* the slots of a schedule of n weeks: 2n of them, dates strictly increasing with
\* the sequence number, every weekday one of the pair's
IsSchedule(slots, n) ==
    /\ Len(slots) = 2 * n
    /\ \A i \in 1..Len(slots) :
          /\ slots[i].sequence = i
          /\ getDay(slots[i].dateObj) \in (IF postSchedule = "MW" THEN {1, 3} ELSE {2, 4})
    /\ \A i \in 1..(Len(slots) - 1) : slots[i].dateObj < slots[i + 1].dateObj

\* C3: the schedule built for N weeks has exactly 2N slots, slot dates strictly
\* increase with the sequence number, and every slot falls on a weekday of the pair.
C3_ScheduleCardinalityAndOrder ==
    calc.op = "calculatePostingDates" => IsSchedule(calc.slots, calc.numWeeks)

C3_Witness ==
    /\ calc.op = "calculatePostingDates"
    /\ calc.numWeeks = MaxNumWeeks
    /\ postSchedule = "TTH"
    /\ Len(calc.slots) = 2 * MaxNumWeeks
    /\ getDay(ParseLocalMidnight(startDate)) = 3

\* the holidays the 16 rules produce for the given years inside [rangeStart, rangeEnd]
RuleHolidays(years, rangeStart, rangeEnd) ==
    {h \in {Generate(HOLIDAY_GENERATORS[g], y) :
                g \in 1..Len(HOLIDAY_GENERATORS), y \in years} :
        rangeStart <= h.date /\ h.date <= rangeEnd}

\* C4: getHolidaysInRange(A, B) returns exactly the holidays of the 16 rules for
\* the years A.year-1 .. B.year+1 whose date lies in [A, B], both ends included, in
\* ascending date order; an empty range gives an empty list.
C4_HolidaysInRangeExact ==
    calc.op = "getHolidaysInRange" =>
        LET A   == calc.rangeStart
            B   == calc.rangeEnd
            res == calc.holidays
        IN  /\ Len(HOLIDAY_GENERATORS) = 16
            /\ Range(res) = RuleHolidays((getFullYear(A) - 1)..(getFullYear(B) + 1), A, B)
            /\ Len(res) = Cardinality(Range(res))
            /\ \A i \in 1..(Len(res) - 1) : res[i].date <= res[i + 1].date
            /\ A > B => res = <<>>
            \* no rule's holiday of a year outside the visited years is missed
            /\ RuleHolidays((getFullYear(A) - 3)..(getFullYear(B) + 3), A, B) \subseteq Range(res)

\* a range that crosses a year boundary and ends on a holiday
C4_Witness ==
    /\ calc.op = "getHolidaysInRange"
    /\ getFullYear(calc.rangeStart) < getFullYear(calc.rangeEnd)
    /\ Len(calc.holidays) >= 2
    /\ calc.holidays[Len(calc.holidays)].date = calc.rangeEnd

----------------------------------------------------------------------------
(* Properties of the component App *)

\* post[name] read as JavaScript reads it: undefined when the post has no such field
PostField(post, name) == IF name \in DOMAIN post THEN Str(post[name]) ELSE Undefined

\* the two plans have the same weeks, week numbers and posts, the post at
\* (weekIndex, postIndex) apart
SameExceptPost(before, after, weekIndex, postIndex) ==
    /\ Len(after) = Len(before)
    /\ \A i \in 1..Len(before) :
          /\ after[i].week = before[i].week
          /\ Len(after[i].posts) = Len(before[i].posts)
          /\ \A j \in 1..Len(before[i].posts) :
                (i # weekIndex + 1 \/ j # postIndex + 1) =>
                    after[i].posts[j] = before[i].posts[j]

\* e is an error message that handleSubmit sets when extraction or generation fails
IsSubmitFailure(e) ==
    /\ Truthy(e)
    /\ e.value[1] \in
          {"Failed to generate content plan.",
           "There was an issue reading the past posts PDF file. Please ensure it's a valid PDF and try again.",
           "There was an issue reading the onboarding PDF file. Please ensure it's a valid PDF and try again."}

\* e is an error message that starts with 'Failed to regenerate post.'
IsRegenerateFailure(e) == Truthy(e) /\ e.value[1] = "Failed to regenerate post."

\* this step is the completion of the regeneration call: generateSinglePost has
\* settled and the rest of handleRegeneratePost has run
Completes(call) == call.pc = "generate" /\ regenerations' = regenerations \ {call}

\* C5: if a full-plan generation started by handleSubmit fails (PDF extraction
\* or generation error) while a previously generated plan existed, the content
\* plan after the failure is that previous plan, unchanged.
C5_FailedSubmitKeepsPreviousPlan ==
    [][(/\ submission.pc # "idle"
        /\ submission'.pc = "idle"
        /\ IsSubmitFailure(error')
        /\ Truthy(submission.previousPlan))
       => contentPlan' = submission.previousPlan]_vars

\* C6: when the generateSinglePost call of a regeneration of (weekIndex,
\* postIndex) succeeds, the plan afterwards differs from the plan just before the
\* completion only at that post, which is the returned post; when it fails, the
\* plan is unchanged and the error starts with 'Failed to regenerate post.'.
C6_RegenerationReplacesOnlyTargetPost ==
    [][\A call \in regenerations :
          Completes(call) =>
              \E response \in SinglePostResponses :
                  LET r == generateSinglePostResult(response)
                  IN  IF r.throws
                      THEN /\ contentPlan' = contentPlan
                           /\ IsRegenerateFailure(error')
                      ELSE /\ mounted'
                           /\ Truthy(contentPlan)
                           /\ Truthy(contentPlan')
                           /\ SameExceptPost(contentPlan.value, contentPlan'.value,
                                             call.weekIndex, call.postIndex)
                           /\ HasPost(contentPlan'.value, call.weekIndex, call.postIndex)
                           /\ PostAt(contentPlan'.value, call.weekIndex,
                                     call.postIndex) = r.post]_vars

\* the posts generateSinglePost can resolve with
ReturnedPosts ==
    {generateSinglePostResult(response).post :
        response \in {x \in SinglePostResponses : ~generateSinglePostResult(x).throws}}

\* C7: with regenerations of distinct slots in flight together, whatever the
\* order of completion and the mix of successes and failures: the completion of
\* one writes a returned post into its own slot of the plan in state and leaves
\* every other post as it is (so a post that another completion placed is neither
\* lost nor overwritten), a failure leaves the plan as it is, and the other
\* regenerations stay in flight with their keys in regeneratingPosts.
C7_ConcurrentRegenerationsIndependent ==
    [][\A call \in regenerations :
          Completes(call) =>
              /\ \A other \in regenerations \ {call} :
                    /\ other \in regenerations'
                    /\ postKey(other.weekIndex, other.postIndex) \in regeneratingPosts'
              /\ \/ /\ contentPlan' = contentPlan
                    /\ IsRegenerateFailure(error')
                 \/ /\ Truthy(contentPlan)
                    /\ HasPost(contentPlan.value, call.weekIndex, call.postIndex)
                    /\ Truthy(contentPlan')
                    /\ SameExceptPost(contentPlan.value, contentPlan'.value,
                                      call.weekIndex, call.postIndex)
                    /\ PostAt(contentPlan'.value, call.weekIndex, call.postIndex)
                          \in ReturnedPosts
                    /\ error' = error
                 \* a submission has cleared or replaced the plan meanwhile
                 \/ /\ ~(Truthy(contentPlan)
                         /\ HasPost(contentPlan.value, call.weekIndex, call.postIndex))
                    /\ contentPlan' = contentPlan]_vars

\* a regeneration is waiting for its post while the post another regeneration
\* returned has been placed in a slot of the plan that this one started from
C7_Witness ==
    \E call \in regenerations :
        /\ call.pc = "generate"
        /\ Truthy(contentPlan)
        /\ \E postIndex \in {0, 1} \ {call.postIndex} :
              /\ HasPost(contentPlan.value, call.weekIndex, postIndex)
              /\ PostAt(contentPlan.value, call.weekIndex, postIndex) \in ReturnedPosts
              /\ HasPost(call.currentPlan.value, call.weekIndex, postIndex)
              /\ PostAt(call.currentPlan.value, call.weekIndex, postIndex)
                    \notin ReturnedPosts
              /\ SameExceptPost(call.currentPlan.value, contentPlan.value,
                                call.weekIndex, postIndex)

\* C8: handleContentPlanChange on a plan changes the named field of the post at
\* (weekIndex, postIndex) to the value and nothing else: every other post, every
\* week number and the other fields of the edited post are as before, and the
\* plan it was given is not mutated; without a plan it returns null.
C8_EditChangesOnlyNamedField ==
    calc.op = "handleContentPlanChange" =>
        LET before == calc.currentPlan
            after  == calc.update.state
        IN  /\ ~calc.update.throws
            /\ calc.update.previous = before
            /\ IF ~Truthy(before)
               THEN after = Null
               ELSE /\ after.type = "object"
                    /\ SameExceptPost(before.value, after.value,
                                      calc.weekIndex, calc.postIndex)
                    /\ LET old == PostAt(before.value, calc.weekIndex, calc.postIndex)
                           new == PostAt(after.value, calc.weekIndex, calc.postIndex)
                       IN  /\ PostField(new, calc.field) = Str(calc.value)
                           /\ DOMAIN new = DOMAIN old \cup {calc.field}
                           /\ \A name \in DOMAIN new \ {calc.field} :
                                 new[name] = old[name]

\* the title of the second post of the third week edited, in a plan of three weeks
C8_Witness ==
    /\ calc.op = "handleContentPlanChange"
    /\ Truthy(calc.currentPlan)
    /\ Len(calc.currentPlan.value) = 3
    /\ calc.weekIndex = 2
    /\ calc.postIndex = 1
    /\ calc.field = "title"
    /\ calc.update.state # calc.currentPlan

\* regeneratingPosts holds the key of a slot exactly when a regeneration of
\* that slot is in flight
KeysAreRegenerationsInFlight ==
    mounted =>
        \A weekIndex \in 0..(MaxWeeks - 1), postIndex \in 0..1 :
            postKey(weekIndex, postIndex) \in regeneratingPosts
                <=> \E call \in regenerations :
                       call.weekIndex = weekIndex /\ call.postIndex = postIndex

\* a step that starts or finishes the regeneration of one slot changes no key
\* but that slot's
OnlyOwnKeyChanges ==
    /\ \A call \in regenerations' \ regenerations :
          \A key \in regeneratingPosts' \ regeneratingPosts :
              key = postKey(call.weekIndex, call.postIndex)
    /\ \A call \in regenerations \ regenerations' :
          \A key \in regeneratingPosts \ regeneratingPosts' :
              key = postKey(call.weekIndex, call.postIndex)
    /\ regenerations' = regenerations => regeneratingPosts' = regeneratingPosts

\* C9: in every reachable state regeneratingPosts contains the key
\* 'weekIndex-postIndex' if and only if a regeneration of that slot has started
\* and not completed (the button of a slot whose key is in the set is disabled),
\* and starting or finishing one slot's regeneration neither adds nor removes
\* the key of another slot.
C9_InFlightKeysExact ==
    /\ []KeysAreRegenerationsInFlight
    /\ [][OnlyOwnKeyChanges]_vars

\* both posts of a week are regenerating
C9_Witness ==
    /\ mounted
    /\ postKey(0, 0) \in regeneratingPosts
    /\ postKey(0, 1) \in regeneratingPosts
    /\ Cardinality(regenerations) = 2

\* the research cache holds a result for the current practice URL
CacheIsCurrent == Truthy(cachedResearch) /\ cachedResearch.value.url = practiceUrl

\* C10: whenever the research cache holds a result whose url is the current
\* practice URL, neither a full-plan generation nor a single-post regeneration
\* issues a research request, and the cache is left as it is.
C10_CachedResearchIsReused ==
    [][CacheIsCurrent =>
          /\ submission.pc # "research" => submission'.pc # "research"
          /\ \A call \in regenerations' \ regenerations :
                /\ call.pc # "research"
                /\ cachedResearch' = cachedResearch]_vars

----------------------------------------------------------------------------
(* Properties of plan assembly *)

\* C11: for a batch requested as weeks weekStart..weekEnd, the i-th week
\* (0-based) of the processed result is labelled weekStart + i, whatever label
\* the response carried.
C11_WeeksRenumberedFromWeekStart ==
    (calc.op = "generateWeeksBatchResult" /\ ~calc.result.throws) =>
        /\ Len(calc.result.weeks) = Len(calc.response.data.value.weeks)
        /\ \A i \in 1..Len(calc.result.weeks) :
              calc.result.weeks[i].week = calc.weekStart + (i - 1)

\* the batch 5..8 answered with four weeks all labelled 1 comes back as 5, 6, 7, 8
C11_Witness ==
    /\ calc.op = "generateWeeksBatchResult"
    /\ calc.weekStart = 5
    /\ calc.weekEnd = 8
    /\ ~calc.result.throws
    /\ Len(calc.response.data.value.weeks) = 4
    /\ \A i \in 1..4 : calc.response.data.value.weeks[i].week = 1
    /\ [i \in 1..4 |-> calc.result.weeks[i].week] = <<5, 6, 7, 8>>

\* C12: every plan returned by plan assembly for a response that parses and has
\* a weeks array has every week number inside weekStart..weekEnd and exactly 2
\* posts in every week, also when the response holds more or fewer weeks or
\* posts than requested.
C12_PlanShapeWithinRequest ==
    (calc.op = "generateWeeksBatchResult" /\ ~calc.response.empty) =>
        /\ ~calc.result.throws
        /\ \A i \in 1..Len(calc.result.weeks) :
              /\ calc.result.weeks[i].week \in calc.weekStart..calc.weekEnd
              /\ Len(calc.result.weeks[i].posts) = 2

\* C13: every user-supplied milestone whose date falls within the plan window
\* is resolved against the posting slots by the rule used for holidays and
\* appears in the generation request as exactly one slot assignment (slot,
\* relation, distance).
C13_MilestonesAlignedLikeHolidays ==
    calc.op = "generateWeeksBatchRequest" =>
        \A m \in Range(calc.milestones) :
            LET date     == ParseLocalMidnight(m.date)
                expected == alignHoliday(tz, calc.allPostingSlots,
                                         [name |-> m.name, date |-> date])
                mine     == {a \in Range(calc.request.holidayAlignment) :
                                a.name = m.name /\ a.date = date}
            IN  (calc.planStart <= date /\ date <= calc.planEnd) =>
                    /\ Cardinality(mine) = 1
                    /\ \A a \in mine :
                          /\ Len(expected) = 1
                          /\ a.iso = expected[1].slot.iso
                          /\ a.sequence = expected[1].slot.sequence
                          /\ a.relation = expected[1].relation
                          /\ a.absDiffDays = expected[1].absDiffDays

\* C14: in the alignment rule, when no slot has a date on or before the anchor,
\* the chosen slot is the slot after the anchor at the smallest distance (the
\* earliest slot) and the relation is 'after'; with no slots at all no
\* assignment is produced, and nothing is thrown.
C14_AfterFallbackAndNoSlots ==
    calc.op = "alignHoliday" =>
        LET slots  == Range(calc.slots)
            anchor == calc.holiday.date
        IN  /\ slots = {} => calc.result = <<>>
            /\ (slots # {} /\ \A s \in slots : s.dateObj > anchor) =>
                  /\ Len(calc.result) = 1
                  /\ calc.result[1].relation = "after"
                  /\ calc.result[1].slot \in slots
                  /\ \A s \in slots : calc.result[1].slot.dateObj <= s.dateObj
                  /\ calc.result[1].slot = calc.slots[1]
                  /\ calc.result[1].absDiffDays = calc.result[1].slot.dateObj - anchor

\* an anchor fifteen days before the start of a two-week schedule is given the
\* first slot, 'after'
C14_Witness ==
    /\ calc.op = "alignHoliday"
    /\ Len(calc.slots) = 2 * MaxAlignWeeks
    /\ calc.holiday.date < calc.slots[1].dateObj - 7
    /\ Len(calc.result) = 1
    /\ calc.result[1].relation = "after"
    /\ calc.result[1].slot.sequence = 1

\* the week numbers of a plan, in the order of the plan
WeekNumbers(plan) == [i \in 1..Len(plan) |-> plan[i].week]

\* C15: when the plan is generated as three concurrently requested batches
\* (weeks 1-4, 5-8, 9-12), the returned plan lists the weeks of batch 1, then
\* batch 2, then batch 3, whatever the order in which the requests complete;
\* with four weeks from each batch its week numbers are 1..12 in ascending order.
C15_BatchesJoinedInRequestOrder ==
    planCall.pc = "fulfilled" =>
        /\ contentPlan = Obj(planCall.batches[1].value
                             \o planCall.batches[2].value
                             \o planCall.batches[3].value)
        /\ (\A i \in 1..3 : Len(planCall.batches[i].value) = 4) =>
              WeekNumbers(contentPlan.value) = [i \in 1..12 |-> i]

\* the batches completed in the order 3, 1, 2 and the plan has weeks 1..12
C15_Witness ==
    /\ planCall.pc = "fulfilled"
    /\ planCall.order = <<3, 1, 2>>
    /\ Truthy(contentPlan)
    /\ WeekNumbers(contentPlan.value) = [i \in 1..12 |-> i]

\* C16: when at least one of the concurrent batches fails, generateContentPlan
\* fails as a whole and returns no weeks; the weeks of the batches that
\* completed are not surfaced as a partial plan, whichever batch fails and in
\* whatever order the batches complete.
C16_FailedBatchFailsWholePlan ==
    (planCall.pc # "idle" /\ \E i \in 1..3 : planCall.batches[i].state = "rejected") =>
        /\ planCall.pc = "rejected"
        /\ contentPlan = Null
        /\ ~isLoading
        /\ Truthy(error)
        /\ error.value[1] = "Failed to generate content plan."

\* the second batch failed after the third completed, the first completed
\* last: two batches hold weeks, no plan is shown
C16_Witness ==
    /\ planCall.pc = "rejected"
    /\ planCall.order = <<3, 2, 1>>
    /\ planCall.batches[1].state = "fulfilled"
    /\ planCall.batches[2].state = "rejected"
    /\ planCall.batches[3].state = "fulfilled"
    /\ contentPlan = Null

----------------------------------------------------------------------------
(* Properties of the handling of generation responses *)

\* the text, its markdown fence stripped, parses as JSON as it is or after the
\* raw carriage returns and newlines inside its string literals are escaped
ParsesWithOneRepair(text) ==
    text.defects \subseteq {"raw newline in string", "raw carriage return in string"}

\* the parsed value of a full-plan response has no weeks
LacksWeeks(data) == ~Truthy(data) \/ "weeks" \notin DOMAIN data.value

\* no post with a title and a caption is found in the parsed value of a
\* single-post response
LacksTitleOrCaption(data) == ~Truthy(tryExtractSinglePost(data))

----------------------------------------------------------------------------
(* Properties of handleSubmit's validation and of the research step *)

ValidationMessage ==
    Str(<<"Please fill out all fields, including the start date, before generating the plan.">>)

\* C18: when handleSubmit is invoked while the practice name, the practice URL
\* or the start date is empty, the error message is set and nothing else
\* happens: no extraction, research or generation call is issued (the
\* submission and the regenerations stay as they were) and the content plan,
\* the loading flag, the research cache and every other state are unchanged.
C18_InvalidSubmitOnlySetsError ==
    [][ (HandleSubmit /\ (practiceName = <<>> \/ practiceUrl = <<>> \/ startDate = <<>>))
          => /\ error' = ValidationMessage
             /\ UNCHANGED <<contentPlan, isLoading, cachedResearch, submission,
                            regenerations, regeneratingPosts, onboardingContent,
                            pastPostsContent, formVars>> ]_vars

\* the message is shown over a plan that is still in state, with no call begun
C18_Witness ==
    /\ error = ValidationMessage
    /\ Truthy(contentPlan)
    /\ FieldsMissing(practiceName, practiceUrl, startDate)
    /\ ~isLoading
    /\ submission = Idle

\* C19: when the research request fails, researchPracticeWithSearch resolves
\* with a text that begins 'Research unavailable', the research cache stays as
\* it was, and the plan generation or single-post regeneration that asked for
\* the research moves on to its generation request.
C19_ResearchFailureIsNotFatal ==
    [][ \A response \in ResearchResponses :
          response.rejected =>
            /\ SubmitResearchResponseOf(response) =>
                  /\ Head(submission'.research) = "Research unavailable: "
                  /\ cachedResearch' = cachedResearch
                  /\ submission'.pc = "generate"
                  /\ isLoading' /\ error' = error
            /\ \A call \in regenerations :
                  RegenerateResearchResponseOf(call, response) =>
                      /\ LET setter == Or(call.setCachedResearch, Fn("noop"))
                         IN  Head(researchResponse(call.practiceUrl, response,
                                                   setter).research)
                                = "Research unavailable: "
                      /\ cachedResearch' = cachedResearch
                      /\ [call EXCEPT !.pc = "generate"] \in regenerations'
                      /\ error' = error ]_vars

\* a submission whose research failed stands at its generation request with
\* the placeholder, the cache still empty
C19_Witness ==
    /\ submission.pc = "generate"
    /\ Head(submission.research) = "Research unavailable: "
    /\ cachedResearch = Null
    /\ isLoading

----------------------------------------------------------------------------
(* Properties of the schedule's length *)

\* C20: building a schedule with a week count numWeeks <= 0 fails with an
\* InvalidScheduleLength error condition instead of returning a schedule.
C20_NonPositiveWeekCountFails ==
    (calc.op = "buildSchedule" /\ calc.numWeeks <= 0) => calc.result.throws

----------------------------------------------------------------------------
(* Properties of the holiday rules *)

\* C21: calculateEasterSunday returns 2023-04-09 for 2023, 2024-03-31 for 2024
\* and 2025-04-20 for 2025, and for every year of the range a Sunday of that
\* year between March 22 and April 25 inclusive.
C21_EasterIsSundayInSeason ==
    calc.op = "calculateEasterSunday" =>
        /\ getDay(calc.date) = 0
        /\ getFullYear(calc.date) = calc.year
        /\ calc.date >= NewDate(calc.year, 2, 22)
        /\ calc.date <= NewDate(calc.year, 3, 25)
        /\ calc.year = 2023 => formatIso(calc.date) = <<2023, 4, 9>>
        /\ calc.year = 2024 => formatIso(calc.date) = <<2024, 3, 31>>
        /\ calc.year = 2025 => formatIso(calc.date) = <<2025, 4, 20>>

\* Easter Sunday of 2024 has been computed as March 31
C21_Witness ==
    /\ calc.op = "calculateEasterSunday"
    /\ calc.year = 2024
    /\ formatIso(calc.date) = <<2024, 3, 31>>

\* C30: nthWeekdayOfMonth(year, month, weekday, k) with k in 1..4 returns a
\* date of that month with the requested weekday and a day of month in
\* 7(k-1)+1 .. 7k; lastWeekdayOfMonth returns the date of that month with the
\* requested weekday in the month's last 7 days; so Thanksgiving is a Thursday
\* on November 22..28 and Memorial Day a Monday on May 25..31.
C30_WeekdayRulesStayInMonth ==
    /\ calc.op = "nthWeekdayOfMonth" =>
          /\ getFullYear(calc.date) = calc.year
          /\ getMonth(calc.date) = calc.monthIndex
          /\ getDay(calc.date) = calc.weekday
          /\ getDate(calc.date) \in (7 * (calc.occurrence - 1) + 1)..(7 * calc.occurrence)
    /\ calc.op = "lastWeekdayOfMonth" =>
          /\ getFullYear(calc.date) = calc.year
          /\ getMonth(calc.date) = calc.monthIndex
          /\ getDay(calc.date) = calc.weekday
          /\ getMonth(calc.date + 7) # calc.monthIndex
    /\ (calc.op = "generator" /\ calc.holiday.name = "Thanksgiving") =>
          /\ getDay(calc.holiday.date) = 4
          /\ getFullYear(calc.holiday.date) = calc.year
          /\ getMonth(calc.holiday.date) = 10
          /\ getDate(calc.holiday.date) \in 22..28
    /\ (calc.op = "generator" /\ calc.holiday.name = "Memorial Day") =>
          /\ getDay(calc.holiday.date) = 1
          /\ getFullYear(calc.holiday.date) = calc.year
          /\ getMonth(calc.holiday.date) = 4
          /\ getDate(calc.holiday.date) \in 25..31

\* the fourth Saturday of February 2020, a month that begins on a Saturday, is
\* the 22nd
C30_Witness ==
    /\ calc.op = "nthWeekdayOfMonth"
    /\ calc.year = 2020 /\ calc.monthIndex = 1
    /\ calc.weekday = 6 /\ calc.occurrence = 4
    /\ formatIso(calc.date) = <<2020, 2, 22>>

----------------------------------------------------------------------------
(* Properties of the hashtag normalization *)

\* C22: the hashtag normalization is idempotent: applying it twice gives the
\* same text as applying it once, and after one application no run of word
\* characters that follows a '#' contains an uppercase ASCII letter.
C22_HashtagNormalizationIdempotent ==
    calc.op = "lowercaseHashtags" =>
        /\ calc.twice = calc.once
        /\ Len(calc.once) = Len(calc.caption)
        /\ \A i \in 1..Len(calc.once), j \in 1..Len(calc.once) :
              ( /\ i < j
                /\ calc.once[i] = "#"
                /\ \A k \in (i + 1)..j : IsWordChar(calc.once[k]) )
              => calc.once[j] \notin Range(UpperCase)

\* 'A#Ab' has become 'A#ab': the tag is lowercased, the text before it is not
C22_Witness ==
    /\ calc.op = "lowercaseHashtags"
    /\ calc.caption = <<"A", "#", "A", "b">>
    /\ calc.once = <<"A", "#", "a", "b">>
    /\ calc.twice = calc.once

----------------------------------------------------------------------------
(* Further properties of the scheduling engine *)

\* C23: for every start date that is a Sunday, with the Tuesday/Thursday pair
\* and one week, the schedule is exactly the Tuesday 2 days after the start
\* date followed by the Thursday 4 days after it, with sequence numbers 1 and 2.
C23_SundayStartGivesTuesdayThursday ==
    ( /\ calc.op = "calculatePostingDates"
      /\ calc.numWeeks = 1
      /\ postSchedule = "TTH"
      /\ getDay(ParseLocalMidnight(startDate)) = 0 )
    => LET start == ParseLocalMidnight(startDate)
       IN  /\ Len(calc.slots) = 2
           /\ calc.slots[1].sequence = 1
           /\ calc.slots[1].dateObj = start + 2
           /\ calc.slots[1].iso = formatIso(start + 2)
           /\ getDay(calc.slots[1].dateObj) = 2
           /\ calc.slots[2].sequence = 2
           /\ calc.slots[2].dateObj = start + 4
           /\ calc.slots[2].iso = formatIso(start + 4)
           /\ getDay(calc.slots[2].dateObj) = 4

\* the one-week Tuesday/Thursday schedule of a Sunday start has been built
C23_Witness ==
    /\ calc.op = "calculatePostingDates"
    /\ calc.numWeeks = 1
    /\ postSchedule = "TTH"
    /\ getDay(ParseLocalMidnight(startDate)) = 0
    /\ Len(calc.slots) = 2
    /\ calc.slots[2].dateObj = ParseLocalMidnight(startDate) + 4

\* C24: in generateWeeksBatch the holiday window is [date of the first slot,
\* date of the last slot] of the 12-week schedule, so every holiday in the
\* window receives exactly one assignment, its relation is "exact" or "before"
\* (never "after", never no assignment), and its slot is at most 4 days before
\* the holiday.
C24_WindowHolidaysAlignedWithin4Days ==
    calc.op = "generateWeeksBatch" =>
        LET slots == calc.allPostingSlots
            years == (getFullYear(calc.planStart) - 1)..(getFullYear(calc.planEnd) + 1)
        IN  /\ Len(slots) = 2 * PlanWeeks
            /\ calc.planStart = slots[1].dateObj
            /\ calc.planEnd = slots[Len(slots)].dateObj
            /\ Range(calc.holidaysInRange) = RuleHolidays(years, calc.planStart, calc.planEnd)
            /\ \A h \in Range(calc.holidaysInRange) :
                  /\ Cardinality({i \in 1..Len(calc.holidayAlignment) :
                                     calc.holidayAlignment[i].holiday = h}) = 1
                  /\ \A i \in 1..Len(calc.holidayAlignment) :
                        LET a == calc.holidayAlignment[i]
                        IN  a.holiday = h =>
                               /\ a.relation \in {"exact", "before"}
                               /\ a.slot \in Range(slots)
                               /\ h.date - a.slot.dateObj \in 0..4
                               /\ a.absDiffDays = h.date - a.slot.dateObj

\* a window that begins on a holiday, and a holiday four days after its slot
C24_Witness ==
    /\ calc.op = "generateWeeksBatch"
    /\ \E a \in Range(calc.holidayAlignment) :
          a.holiday.date = calc.planStart /\ a.relation = "exact"
    /\ \E a \in Range(calc.holidayAlignment) :
          a.relation = "before" /\ a.absDiffDays = 4

\* the slot of the schedule for a week (1-based) and a post index (0-based)
SlotOf(slots, week, postIndex) ==
    CHOOSE s \in Range(slots) : s.week = week /\ s.postIndex = postIndex

\* C25: for every start date, pair and week index w, the week's second slot is
\* exactly 2 days after its first slot, the first slot of week w+1 exactly 7
\* days after the first slot of week w, and no slot of the schedule has a date
\* earlier than the start date.
C25_FixedOffsetsNeverBeforeStart ==
    /\ calc.op = "calculatePostingDates" =>
          /\ \A w \in 1..calc.numWeeks :
                /\ Cardinality({s \in Range(calc.slots) : s.week = w}) = 2
                /\ SlotOf(calc.slots, w, 1).dateObj = SlotOf(calc.slots, w, 0).dateObj + 2
          /\ \A w \in 1..(calc.numWeeks - 1) :
                SlotOf(calc.slots, w + 1, 0).dateObj = SlotOf(calc.slots, w, 0).dateObj + 7
          /\ \A s \in Range(calc.slots) : s.dateObj >= ParseLocalMidnight(startDate)
    /\ calc.op = "calculatePostDate" =>
          /\ calc.date >= ParseLocalMidnight(startDate)
          /\ getDay(calc.date) = targetDays(postSchedule)[calc.postIndex + 1]

\* a twelve-week schedule whose start date is a Friday: the first slot is
\* after the start date, the last first-slot 77 days after the first
C25_Witness ==
    /\ calc.op = "calculatePostingDates"
    /\ calc.numWeeks = MaxNumWeeks
    /\ getDay(ParseLocalMidnight(startDate)) = 5
    /\ SlotOf(calc.slots, 1, 0).dateObj > ParseLocalMidnight(startDate)
    /\ SlotOf(calc.slots, MaxNumWeeks, 0).dateObj
          = SlotOf(calc.slots, 1, 0).dateObj + 7 * (MaxNumWeeks - 1)

----------------------------------------------------------------------------
(* Further properties of the component App *)

\* C26: the post returned by a regeneration is only written into the plan the
\* regeneration was started against: when a submission has begun since the
\* regeneration started (it cleared the plan and may have replaced it by a
\* newly generated one), the completion of the regeneration leaves the plan in
\* state as it is.
C26_RegenerationNeverWritesNewPlan ==
    [][\A call \in regenerations :
          (Completes(call) /\ used.submits > call.submitsBefore)
              => contentPlan' = contentPlan]_vars

\* the research cache holds a result stored under another URL than the current
CacheIsStale == Truthy(cachedResearch) /\ cachedResearch.value.url # practiceUrl

\* this step is a cache hit of researchPracticeWithSearch in generateContentPlan:
\* the submission reaches its generation request without a research request
CacheHit ==
    /\ submission.pc \notin {"research", "generate"}
    /\ submission'.pc = "generate"

\* C27: in every state where the cache-clearing effect has run to completion
\* (the states in which the user can act) the research cache is empty or its
\* url is the current practice URL; a cache written by a research request for
\* an old URL after the URL changed is cleared by the effect; and
\* researchPracticeWithSearch returns cached data only when it was stored under
\* the URL it is asked about.
C27_CacheMatchesPracticeUrl ==
    /\ [](UserCanAct => ~CacheIsStale)
    /\ [][ClearCachedResearchEffect => ~CacheIsStale']_vars
    /\ (CacheIsStale ~> ~CacheIsStale)
    /\ [][CacheHit =>
            /\ Truthy(submission'.cachedResearch)
            /\ submission'.cachedResearch.value.url = submission'.practiceUrl
            /\ submission'.research = submission'.cachedResearch.value.data]_vars

\* the research requested for the old URL has written the cache after the user
\* changed the URL
C27_Witness ==
    /\ CacheIsStale
    /\ submission.pc = "generate"
    /\ submission.practiceUrl = cachedResearch.value.url
    /\ submission.practiceUrl # practiceUrl

----------------------------------------------------------------------------
(* Properties of the single-post request *)

\* the posts of a plan in plan order, each with its position
PostsInOrder(plan) ==
    Flatten([w \in 1..Len(plan) |->
                [p \in 1..Len(plan[w].posts) |->
                    [weekIndex |-> w - 1, postIndex |-> p - 1, post |-> plan[w].posts[p]]]])

\* C28: the duplicate-avoidance list generateSinglePost builds for a
\* regeneration of (weekIndex, postIndex) holds the title and caption of every
\* post of the plan except the post at (weekIndex, postIndex), in plan order,
\* and nothing of the targeted post; for a 12-week plan that is 23 entries.
C28_ListIsEveryOtherPostInOrder ==
    calc.op = "existingPostsText" =>
        LET others == SelectSeq(PostsInOrder(calc.currentPlan),
                                LAMBDA x : ~(x.weekIndex = calc.weekIndex
                                             /\ x.postIndex = calc.postIndex))
            target == PostAt(calc.currentPlan, calc.weekIndex, calc.postIndex)
        IN  /\ Len(calc.lines) = Len(others)
            /\ Len(calc.lines) = 2 * Len(calc.currentPlan) - 1
            /\ \A i \in 1..Len(others) :
                  calc.lines[i] = <<"-", " ">> \o others[i].post.title
                                     \o <<":", " ">> \o others[i].post.caption
            /\ \A i \in 1..Len(calc.lines) :
                  calc.lines[i] # <<"-", " ">> \o target.title \o <<":", " ">> \o target.caption
            /\ Len(calc.currentPlan) = 12 => Len(calc.lines) = 23

\* the list for the second post of week 7 of a 12-week plan has 23 entries
C28_Witness ==
    /\ calc.op = "existingPostsText"
    /\ Len(calc.currentPlan) = 12
    /\ calc.weekIndex = 6 /\ calc.postIndex = 1
    /\ Len(calc.lines) = 23
    /\ calc.lines[13] = <<"-", " ">> \o ListPost(7, 0).title
                           \o <<":", " ">> \o ListPost(7, 0).caption
    /\ calc.lines[14] = <<"-", " ">> \o ListPost(8, 0).title
                           \o <<":", " ">> \o ListPost(8, 0).caption

\* C29: for every slot and every local time-zone offset, the YYYY-MM-DD string
\* that handleRegeneratePost passes to generateSinglePost denotes the same
\* calendar date as the slot date calculatePostDate returns, the date shown on
\* the post card and listed in the full-plan schedule.
C29_PassedDateIsSlotDate ==
    calc.op = "passPostDate" =>
        /\ calc.passed = calc.listed
        /\ ParseLocalMidnight(calc.passed) = calc.postDate

====
